---- MODULE Spec2Model ----
(***************************************************************************)
(* NotiSync notification classifier (services/ml/classifier.py): the       *)
(* keyword rule table, the learned-pattern store with its external         *)
(* key-value backing, and the classification engine.                       *)
(***************************************************************************)
EXTENDS Integers, Sequences, FiniteSets, TLC

(***************************************************************************)
(* Python floats.  A confidence is an IEEE-754 binary64 value; every one   *)
(* the program computes lies in [0, 2) and is a multiple of 2^-57, so it   *)
(* is kept exactly as hi * 2^29 + lo in units of 2^-57 (two limbs, each    *)
(* below 2^29, because TLC's integers are 32 bits wide).                   *)
(***************************************************************************)
LimbBase == 2^29

Float(hi, lo) == [hi |-> hi, lo |-> lo]

\* The float literals of classifier.py, as Python parses them.
DefaultConfidence == Float(134217728, 0)            \* 0.5
AppIncrement == Float(26843545, 322122548)          \* 0.1
AppCeiling == Float(255013683, 107374176)           \* 0.95
ContentIncrement == Float(13421772, 429496730)      \* 0.05
ContentCeiling == Float(241591910, 214748368)       \* 0.9
LearnedThreshold == Float(187904819, 107374176)     \* 0.7
ConfidenceFloor == Float(134217728, 0)              \* 0.5
ConfidenceCeiling == Float(255013683, 107374176)    \* 0.95
FloatZero == Float(0, 0)
FloatOne == Float(2^28, 0)

FloatLess(a, b) == a.hi < b.hi \/ (a.hi = b.hi /\ a.lo < b.lo)

FloatLeq(a, b) == ~FloatLess(b, a)

\* Python's min(a, b) and max(a, b): the first argument unless the second
\* is strictly smaller (larger).
FloatMin(a, b) == IF FloatLess(b, a) THEN b ELSE a

FloatMax(a, b) == IF FloatLess(a, b) THEN b ELSE a

\* The spacing of binary64 values around hi * 2^29, in units of 2^-57.
Ulp(hi) ==
  IF hi >= 2^29 THEN 64
  ELSE IF hi >= 2^28 THEN 32
  ELSE IF hi >= 2^27 THEN 16
  ELSE IF hi >= 2^26 THEN 8
  ELSE IF hi >= 2^25 THEN 4
  ELSE IF hi >= 2^24 THEN 2
  ELSE 1

\* a + b in binary64: the exact sum rounded to nearest, ties to even.
FloatAdd(a, b) ==
  LET lo0 == a.lo + b.lo
      hi0 == a.hi + b.hi + (lo0 \div LimbBase)
      lo1 == lo0 % LimbBase
      u == Ulp(hi0)
      r == lo1 % u
      down == lo1 - r
      up == 2 * r > u \/ (2 * r = u /\ (down \div u) % 2 = 1)
      lo2 == IF up THEN down + u ELSE down
  IN Float(hi0 + (lo2 \div LimbBase), lo2 % LimbBase)

\* p / r in binary64 for integers with 0 < r < 2^11 and 1/2 <= p/r <= 1:
\* the 53-bit significand round(p * 2^53 / r), ties to even, by long
\* division in digits of 20, 20 and 13 bits, scaled to units of 2^-57.
FloatDiv(p, r) ==
  LET q0 == p \div r
      a == (p % r) * 2^20
      q1 == a \div r
      b == (a % r) * 2^20
      q2 == b \div r
      c == (b % r) * 2^13
      q3 == c \div r
      rem == c % r
      up == 2 * rem > r \/ (2 * rem = r /\ q3 % 2 = 1)
      lo0 == (q2 % 2^12) * 2^17 + q3 * 16 + (IF up THEN 16 ELSE 0)
      hi0 == q0 * 2^28 + q1 * 2^8 + (q2 \div 2^12)
  IN Float(hi0 + (lo0 \div LimbBase), lo0 % LimbBase)

(***************************************************************************)
(* Python strings, over the characters the inputs are drawn from: ASCII    *)
(* and the Greek letters delta, omicron and sigma.  A string is the        *)
(* sequence of its characters.                                             *)
(***************************************************************************)
Chars(s) == [i \in 1..Len(s) |-> SubSeq(s, i, i)]

Range(seq) == {seq[i] : i \in DOMAIN seq}

UpperChars == Chars("ABCDEFGHIJKLMNOPQRSTUVWXYZ") \o <<"Δ", "Ο", "Σ">>

LowerChars == Chars("abcdefghijklmnopqrstuvwxyz") \o <<"δ", "ο", "σ">>

DigitChars == Range(Chars("0123456789"))

Whitespace == {" ", "\t", "\n"}

LowerCase ==
  [c \in Range(UpperChars) |->
     LowerChars[CHOOSE i \in DOMAIN UpperChars : UpperChars[i] = c]]

LowerChar(c) == IF c \in DOMAIN LowerCase THEN LowerCase[c] ELSE c

\* str.lower().  A capital sigma becomes the final form of the small sigma
\* when a cased letter precedes it and none follows it, case-ignorable
\* characters skipped on both sides; otherwise each character is mapped on
\* its own.
Lower(s) ==
  LET Cased == Range(UpperChars) \cup Range(LowerChars) \cup {"ς"}
      CaseIgnorable == {"'", ".", ":"}
      Before(i) == {j \in 1..(i - 1) : s[j] \notin CaseIgnorable}
      After(i) == {j \in (i + 1)..Len(s) : s[j] \notin CaseIgnorable}
      FinalSigma(i) ==
        /\ Before(i) # {}
        /\ s[CHOOSE j \in Before(i) : \A k \in Before(i) : k <= j] \in Cased
        /\ \/ After(i) = {}
           \/ s[CHOOSE j \in After(i) : \A k \in After(i) : j <= k]
                \notin Cased
  IN [i \in 1..Len(s) |->
        IF s[i] = "Σ" THEN IF FinalSigma(i) THEN "ς" ELSE "σ"
        ELSE LowerChar(s[i])]

\* str.strip()
Strip(s) ==
  IF \A i \in 1..Len(s) : s[i] \in Whitespace THEN <<>>
  ELSE SubSeq(s,
         CHOOSE i \in 1..Len(s) :
           s[i] \notin Whitespace /\ \A j \in 1..(i - 1) : s[j] \in Whitespace,
         CHOOSE i \in 1..Len(s) :
           s[i] \notin Whitespace
             /\ \A j \in (i + 1)..Len(s) : s[j] \in Whitespace)

\* `k in s` for Python strings: substring containment.
Contains(k, s) ==
  \E i \in 0..(Len(s) - Len(k)) : \A j \in 1..Len(k) : s[i + j] = k[j]

\* str.startswith
StartsWith(s, p) == Len(p) <= Len(s) /\ \A j \in 1..Len(p) : s[j] = p[j]

\* \w of the re module
WordChars ==
  Range(UpperChars) \cup Range(LowerChars) \cup DigitChars \cup {"_", "ς"}

\* re.findall(r'\b\w{3,}\b', content): the maximal runs of word characters
\* that are at least 3 long, left to right.
RECURSIVE FindWords(_)
FindWords(s) ==
  IF Len(s) = 0 THEN <<>>
  ELSE IF s[1] \notin WordChars THEN FindWords(Tail(s))
  ELSE LET stops == {i \in 1..Len(s) : s[i] \notin WordChars}
           end == IF stops = {} THEN Len(s)
                  ELSE (CHOOSE i \in stops : \A j \in stops : i <= j) - 1
           rest == FindWords(SubSeq(s, end + 1, Len(s)))
       IN IF end >= 3 THEN <<SubSeq(s, 1, end)>> \o rest ELSE rest

(***************************************************************************)
(* The regular expressions of junk_keywords['patterns'].  A pattern is a   *)
(* sequence of items: a literal character, \d or \s, taken once ("1"),     *)
(* one or more times ("+") or zero or more times ("*").                    *)
(***************************************************************************)
Lit(c) == [cls |-> "lit", ch |-> c, q |-> "1"]

Digit(q) == [cls |-> "d", ch |-> "", q |-> q]

Space(q) == [cls |-> "s", ch |-> "", q |-> q]

Lits(s) == [i \in 1..Len(s) |-> Lit(SubSeq(s, i, i))]

\* Whether character c belongs to the item's class; literals compare
\* case-insensitively (re.IGNORECASE).
ItemAccepts(item, c) ==
  CASE item.cls = "lit" -> LowerChar(c) = LowerChar(item.ch)
    [] item.cls = "d" -> c \in DigitChars
    [] item.cls = "s" -> c \in Whitespace

\* Whether the pattern, from its k-th item on, matches a prefix of s that
\* starts at position i.
RECURSIVE MatchAt(_, _, _, _)
MatchAt(pat, k, s, i) ==
  IF k > Len(pat) THEN TRUE
  ELSE LET item == pat[k]
           least == IF item.q = "*" THEN 0 ELSE 1
           left == Len(s) - i + 1
           most == IF item.q = "1" /\ left >= 1 THEN 1 ELSE left
       IN \E n \in least..most :
            /\ \A j \in i..(i + n - 1) : ItemAccepts(item, s[j])
            /\ MatchAt(pat, k + 1, s, i + n)

\* re.search(pattern, content, re.IGNORECASE): an unanchored match.
ReSearch(pat, s) == \E i \in 1..(Len(s) + 1) : MatchAt(pat, 1, s, i)

(***************************************************************************)
(* The keyword rule table (_initialize_keywords).                          *)
(***************************************************************************)
\* The strings of a list literal.
Strings(list) == [i \in DOMAIN list |-> Chars(list[i])]

\* Mutant: the categories are held, and so scanned, with Junk first.
CategoriesJunkFirst == <<"Junk", "Personal", "Work">>

Categories == <<"Work", "Personal", "Junk">>

NotificationCategory == {"Work", "Personal", "Junk"}

work_keywords ==
  [apps |-> Strings(<<
       "slack", "teams", "microsoft teams", "outlook", "gmail", "email",
       "zoom", "webex", "skype", "calendar", "jira", "confluence", "trello",
       "asana", "notion", "monday", "salesforce", "hubspot", "office",
       "excel", "word", "powerpoint", "sharepoint", "linkedin", "workday",
       "bamboohr", "zendesk", "freshdesk" >>),
   content |-> Strings(<<
       "meeting", "conference", "deadline", "project", "task", "client",
       "customer", "report", "presentation", "document", "schedule",
       "appointment", "colleague", "team", "manager", "office", "work",
       "business", "professional", "corporate", "invoice", "contract",
       "proposal", "budget", "quarterly", "standup", "scrum", "sprint",
       "deployment", "release", "urgent", "asap", "priority", "escalation",
       "incident" >>),
   patterns |-> << >>,
   domains |-> Strings(<<
       "company.com", "corp.com", "enterprise.com", "business.com",
       "work.com", "office.com", "team.com" >>)]

personal_keywords ==
  [apps |-> Strings(<<
       "whatsapp", "telegram", "signal", "messenger", "imessage",
       "instagram", "facebook", "twitter", "snapchat", "tiktok", "youtube",
       "spotify", "netflix", "amazon", "uber", "lyft", "maps", "weather",
       "news", "reddit", "discord", "twitch", "banking", "bank", "paypal",
       "venmo", "cashapp", "zelle", "fitness", "health", "calendar",
       "photos", "camera" >>),
   content |-> Strings(<<
       "friend", "family", "mom", "dad", "brother", "sister", "birthday",
       "anniversary", "vacation", "holiday", "weekend", "dinner", "lunch",
       "coffee", "movie", "game", "party", "personal", "private", "home",
       "house", "apartment", "love", "miss", "care", "thanks",
       "congratulations", "reminder", "appointment", "doctor", "dentist",
       "gym", "workout", "exercise", "recipe", "cooking", "shopping" >>),
   patterns |-> << >>,
   domains |-> << >>]

junk_keywords ==
  [apps |-> Strings(<<
       "marketing", "promo", "deals", "offers", "shopping", "retail",
       "store", "mall", "advertisement", "ad", "spam", "newsletter",
       "subscription", "promotion" >>),
   content |-> Strings(<<
       "sale", "discount", "offer", "deal", "promotion", "coupon",
       "limited time", "buy now", "shop", "free shipping", "% off",
       "unsubscribe", "marketing", "newsletter", "advertisement",
       "click here", "act now", "hurry", "expires", "last chance", "winner",
       "congratulations", "prize", "lottery", "jackpot", "free", "bonus",
       "reward", "cashback", "refund", "viagra", "casino", "gambling",
       "loan", "credit", "weight loss", "diet", "supplement", "miracle" >>),
   patterns |-> <<
       [src |-> Chars("\\d+%\\s*off"),
        re |-> <<Digit("+"), Lit("%"), Space("*")>> \o Lits("off")],
       [src |-> Chars("free\\s+shipping"),
        re |-> Lits("free") \o <<Space("+")>> \o Lits("shipping")],
       [src |-> Chars("buy\\s+\\d+\\s+get\\s+\\d+"),
        re |-> Lits("buy") \o <<Space("+"), Digit("+"), Space("+")>>
                 \o Lits("get") \o <<Space("+"), Digit("+")>>],
       [src |-> Chars("\\$\\d+\\.\\d{2}"),
        re |-> <<Lit("$"), Digit("+"), Lit("."), Digit("1"), Digit("1")>>],
       [src |-> Chars("limited\\s+time"),
        re |-> Lits("limited") \o <<Space("+")>> \o Lits("time")],
       [src |-> Chars("act\\s+now"),
        re |-> Lits("act") \o <<Space("+")>> \o Lits("now")],
       [src |-> Chars("click\\s+here"),
        re |-> Lits("click") \o <<Space("+")>> \o Lits("here")] >>,
   domains |-> << >>]

\* The tags of matched_keywords.
AppPrefix == Chars("app:")

KeywordPrefix == Chars("keyword:")

PatternPrefix == Chars("pattern:")

DomainPrefix == Chars("domain:")

\* Scores are sums of the weights 3.0, 1.0, 2.0 and 1.5: multiples of 0.5,
\* exact in binary64.  A score is kept as twice its value.
AppWeight == 6

ContentWeight == 2

PatternWeight == 4

\* Mutant: a domain weighs as much as a content keyword.
DomainWeightAsKeyword == 1 + 1

DomainWeight == 3

\* The items of seq that satisfy Test, in order, each mapped by Tag.
Collect(seq, Test(_), Tag(_)) ==
  LET hits == SelectSeq(seq, Test)
  IN [i \in 1..Len(hits) |-> Tag(hits[i])]

_calculate_category_score(app_name, content, keywords) ==
  LET AppHit(app) == Contains(app, app_name)
      AppTag(app) == AppPrefix \o app
      KeywordHit(keyword) == Contains(keyword, content)
      KeywordTag(keyword) == KeywordPrefix \o keyword
      PatternHit(pattern) == ReSearch(pattern.re, content)
      PatternTag(pattern) == PatternPrefix \o pattern.src
      DomainHit(domain) == Contains(domain, content)
      DomainTag(domain) == DomainPrefix \o domain
      apps == Collect(keywords.apps, AppHit, AppTag)
      words == Collect(keywords.content, KeywordHit, KeywordTag)
      pats == Collect(keywords.patterns, PatternHit, PatternTag)
      doms == Collect(keywords.domains, DomainHit, DomainTag)
  IN [score |-> AppWeight * Len(apps) + ContentWeight * Len(words)
                  + PatternWeight * Len(pats) + DomainWeight * Len(doms),
      matches |-> apps \o words \o pats \o doms]

(***************************************************************************)
(* The app names, titles and bodies the calls are made with.               *)
(***************************************************************************)
\* Feedback events: app name, title, body, predicted and actual category.
FeedbackInputs ==
  {<<Chars("TestApp"), Chars("Test"), Chars(""), "Work", "Personal">>,
   <<Chars(""), Chars("URGENT urgent urgent"), Chars("urgent Urgent now"),
     "Personal", "Work">>}

ClassifyInputs ==
  {Strings(<<"", "", "">>),
   Strings(<<"TestApp", "Random message", "">>),
   Strings(<<"TESTAPP", "Urgent", "50% off">>)}

\* An absent (None) title or body: a one-element tuple holding the word
\* None, which no tuple of single characters equals.
PyNone == <<"None">>

\* {value} inside an f-string: str(value), which is "None" for None.
Format(value) == IF value = PyNone THEN Chars("None") ELSE value

\* value or "": None and the empty string are both falsy.
OrEmpty(value) == IF value = PyNone THEN <<>> ELSE value

\* classify's normalisation of its arguments.
NormalApp(app_name) == Strip(Lower(app_name))

NormalContent(title, body) ==
  Strip(Lower(Format(title) \o <<" ">> \o Format(body)))

KeywordsOf(category) ==
  CASE category = "Work" -> work_keywords
    [] category = "Personal" -> personal_keywords
    [] category = "Junk" -> junk_keywords

\* Calls of classify made on the classifier itself, as the tests make them:
\* with None for title and body, and with the same text in two cases.
DirectInputs ==
  {<<Chars("TestApp"), PyNone, PyNone>>,
   <<Chars("TestApp"), Chars(""), Chars("")>>,
   <<Chars("SLACK"), Chars("MEETING REMINDER"), Chars("URGENT")>>,
   <<Chars("slack"), Chars("meeting reminder"), Chars("urgent")>>,
   <<Chars("TestApp"), Chars("ΟΔΟΣ"), Chars("")>>,
   <<Chars("TestApp"), Chars("οδοσ"), Chars("")>>}

\* Notifications for the keyword tables: app names, titles and bodies that
\* hit apps, content keywords, patterns and domains of the three categories,
\* alone and together.
ScoreInputs ==
  LET apps == Strings(<<"", "Slack", "Microsoft Teams", "Calendar",
                        "Shopping App">>)
      titles == Strings(<<"", "Meeting with client", "Team dinner",
                          "see corp.com", "50% OFF Sale!">>)
      bodies == Strings(<<"", "Project deadline urgent", "Congratulations",
                          "Buy 1 get 1, free shipping", "$19.99">>)
  IN {<<apps[a], titles[b], bodies[c]>> :
        a \in DOMAIN apps, b \in DOMAIN titles, c \in DOMAIN bodies}

\* The keyword scores of the inputs above, computed once.
ScoreCache ==
  [pair \in {<<NormalApp(input[1]), NormalContent(input[2], input[3])>> :
              input \in ClassifyInputs \cup DirectInputs} |->
     [category \in NotificationCategory |->
        _calculate_category_score(pair[1], pair[2], KeywordsOf(category))]]

\* The keyword scores of ScoreInputs, computed once.
ScoreInputsCache ==
  [pair \in {<<NormalApp(input[1]), NormalContent(input[2], input[3])>> :
              input \in ScoreInputs} |->
     [category \in NotificationCategory |->
        _calculate_category_score(pair[1], pair[2], KeywordsOf(category))]]

\* self._calculate_category_score(app_name, content, <category>_keywords)
CategoryScore(category, app_name, content) ==
  LET Lookup(key, first, second) ==
        IF key \in DOMAIN first THEN first[key][category]
        ELSE IF key \in DOMAIN second THEN second[key][category]
        ELSE _calculate_category_score(key[1], key[2], KeywordsOf(category))
  IN Lookup(<<app_name, content>>, ScoreCache, ScoreInputsCache)

(***************************************************************************)
(* Python values held in learned_patterns: a dict is its items in          *)
(* insertion order, a confidence is a float, and a JSON array read from    *)
(* the store is a list.                                                    *)
(***************************************************************************)
Dict(items) == [t |-> "dict", items |-> items]

EmptyDict == Dict(<<>>)

PyList == [t |-> "list"]

IsDict(v) == "t" \in DOMAIN v /\ v.t = "dict"

IsFloat(v) == "hi" \in DOMAIN v

DictHas(d, k) == \E i \in DOMAIN d.items : d.items[i].k = k

DictIndex(d, k) == CHOOSE i \in DOMAIN d.items : d.items[i].k = k

\* d.get(k, default)
DictGet(d, k, default) ==
  IF DictHas(d, k) THEN d.items[DictIndex(d, k)].v ELSE default

\* d[k] = v: an existing key keeps its place, a new key goes last.
DictSet(d, k, v) ==
  IF DictHas(d, k)
  THEN Dict([d.items EXCEPT ![DictIndex(d, k)] = [k |-> k, v |-> v]])
  ELSE Dict(Append(d.items, [k |-> k, v |-> v]))

\* {'apps': {}, 'content': {}}
EmptyPatterns ==
  Dict(<<[k |-> "apps", v |-> EmptyDict], [k |-> "content", v |-> EmptyDict]>>)

\* What a call gives back: a value, None, or a raised exception.
Return(value) == [kind |-> "return", value |-> value]

None == [kind |-> "none"]

Raise(exc) == [kind |-> "raise", exc |-> exc]

\* The fixed texts of the reasoning strings.
LearnedFromApp == Chars("Learned from user feedback: ")

LearnedFromContent == Chars("Learned from user feedback: '")

QuoteArrow == Chars("' → ")

Arrow == Chars(" → ")

ClassifiedAs == Chars("Classified as ")

GeneralPatterns == Chars(" based on general patterns")

NoPatternsMatched ==
  Chars("No specific patterns matched, defaulting to Personal")

\* category.value and category.value.lower()
CategoryValue == [category \in NotificationCategory |-> Chars(category)]

CategoryLower == [category \in NotificationCategory |-> Lower(Chars(category))]

ClassificationResult(category, confidence, reasoning, matched_keywords) ==
  [category |-> category, confidence |-> confidence,
   reasoning |-> reasoning, matched_keywords |-> matched_keywords]

\* The loop over one category's learned content patterns, from item i on.
RECURSIVE CheckLearnedContent(_, _, _, _)
CheckLearnedContent(items, i, content, category) ==
  IF i > Len(items) THEN None
  ELSE IF Contains(items[i].k, content)
            /\ FloatLess(LearnedThreshold, items[i].v)
       THEN Return(ClassificationResult(category, items[i].v,
              LearnedFromContent \o items[i].k \o QuoteArrow
                \o CategoryValue[category],
              <<items[i].k>>))
       ELSE CheckLearnedContent(items, i + 1, content, category)

\* Mutant: the app test compares with the 0.95 ceiling instead of the 0.7
\* threshold.
AppOverrideAboveCeiling(apps, app_name) ==
  /\ IsDict(apps)
  /\ DictHas(apps, app_name)
  /\ FloatLess(AppCeiling, DictGet(apps, app_name, FloatZero))

\* Mutant: an app entry at the threshold itself overrides (>= 0.7).
AppOverrideAtLeast(apps, app_name) ==
  /\ IsDict(apps)
  /\ DictHas(apps, app_name)
  /\ FloatLeq(LearnedThreshold, DictGet(apps, app_name, FloatZero))

\* The app test of _check_learned_patterns: the app name is a key of the
\* category's apps and its confidence is above 0.7.
AppOverride(apps, app_name) ==
  /\ IsDict(apps)
  /\ DictHas(apps, app_name)
  /\ FloatLess(LearnedThreshold, DictGet(apps, app_name, FloatZero))

\* The loop of _check_learned_patterns over learned_patterns.items(), from
\* the ci-th category on.
RECURSIVE CheckLearnedFrom(_, _, _, _)
CheckLearnedFrom(patterns_by_category, ci, app_name, content) ==
  IF ci > Len(Categories) THEN None
  ELSE LET category == Categories[ci]
           patterns == patterns_by_category[category]
       IN IF ~IsDict(patterns) THEN Raise("AttributeError")
          ELSE LET apps == DictGet(patterns, "apps", EmptyDict)
                   cont == DictGet(patterns, "content", EmptyDict)
               IN IF AppOverride(apps, app_name)
                  THEN Return(ClassificationResult(category,
                         DictGet(apps, app_name, FloatZero),
                         LearnedFromApp \o app_name \o Arrow
                           \o CategoryValue[category],
                         <<app_name>>))
                  ELSE IF ~IsDict(cont) THEN Raise("AttributeError")
                  ELSE LET hit == CheckLearnedContent(cont.items, 1,
                                                      content, category)
                       IN IF hit.kind # "none" THEN hit
                          ELSE CheckLearnedFrom(patterns_by_category,
                                                ci + 1, app_name, content)

_check_learned_patterns(patterns_by_category, app_name, content) ==
  CheckLearnedFrom(patterns_by_category, 1, app_name, content)

\* list.sort(key=..., reverse=True) and sorted(..., reverse=True): a stable
\* sort, so items that compare equal keep their order.  Greater(a, b) holds
\* when a's key is strictly above b's.
SortedDescending(seq, Greater(_, _)) ==
  LET Rank(i) ==
        Cardinality({j \in 1..Len(seq) : Greater(seq[j], seq[i])})
          + Cardinality({j \in 1..(i - 1) : /\ ~Greater(seq[i], seq[j])
                                            /\ ~Greater(seq[j], seq[i])})
          + 1
  IN [k \in 1..Len(seq) |-> seq[CHOOSE i \in 1..Len(seq) : Rank(i) = k]]

\* separator.join(parts)
RECURSIVE Join(_, _)
Join(separator, parts) ==
  IF Len(parts) = 0 THEN <<>>
  ELSE IF Len(parts) = 1 THEN parts[1]
  ELSE parts[1] \o separator \o Join(separator, Tail(parts))

\* m.split(':', 1)[1]
AfterColon(m) ==
  LET colons == {i \in 1..Len(m) : m[i] = ":"}
      first == CHOOSE i \in colons : \A j \in colons : i <= j
  IN SubSeq(m, first + 1, Len(m))

AppQuote == Chars("app '")

QuoteMatches == Chars("' matches ")

AppsWord == Chars(" apps")

ContainsWord == Chars("contains ")

KeywordsWord == Chars(" keywords: ")

MatchesWord == Chars("matches ")

PatternsWord == Chars(" patterns")

CommaSpace == Chars(", ")

ColonSpace == Chars(": ")

SemicolonSpace == Chars("; ")

_generate_reasoning(category, matches, app_name) ==
  IF Len(matches) = 0
  THEN ClassifiedAs \o CategoryValue[category] \o GeneralPatterns
  ELSE LET IsApp(m) == StartsWith(m, AppPrefix)
           IsKeyword(m) == StartsWith(m, KeywordPrefix)
           IsPattern(m) == StartsWith(m, PatternPrefix)
           Same(m) == m
           app_matches == Collect(matches, IsApp, Same)
           keyword_matches == Collect(matches, IsKeyword, Same)
           pattern_matches == Collect(matches, IsPattern, Same)
           All(m) == TRUE
           keywords ==
             Collect(SubSeq(keyword_matches, 1,
                            IF Len(keyword_matches) < 3
                            THEN Len(keyword_matches) ELSE 3),
                     All, AfterColon)
           reasons ==
             (IF Len(app_matches) > 0
              THEN <<AppQuote \o app_name \o QuoteMatches
                       \o CategoryLower[category] \o AppsWord>>
              ELSE <<>>)
             \o (IF Len(keyword_matches) > 0
                 THEN <<ContainsWord \o CategoryLower[category]
                          \o KeywordsWord \o Join(CommaSpace, keywords)>>
                 ELSE <<>>)
             \o (IF Len(pattern_matches) > 0
                 THEN <<MatchesWord \o CategoryLower[category]
                          \o PatternsWord>>
                 ELSE <<>>)
       IN ClassifiedAs \o CategoryValue[category] \o ColonSpace
            \o Join(SemicolonSpace, reasons)

\* Mutant: the confidence is capped at 0.95 but has no floor.
ScoreConfidenceUnfloored(best_score, second_best_score) ==
  LET p == best_score - second_best_score
      r == IF best_score > 2 THEN best_score ELSE 2
  IN FloatMin(ConfidenceCeiling, FloatDiv(p, r))

\* min(0.95, max(0.5, (best_score - second_best_score) / max(best_score, 1.0)))
\* for scores kept as twice their value.  A quotient below 1/2 rounds to a
\* float that is at most 0.5, which max() replaces by 0.5.
ScoreConfidence(best_score, second_best_score) ==
  LET p == best_score - second_best_score
      r == IF best_score > 2 THEN best_score ELSE 2
  IN IF 2 * p < r THEN ConfidenceFloor
     ELSE FloatMin(ConfidenceCeiling, FloatMax(ConfidenceFloor, FloatDiv(p, r)))

\* Mutant: categories with equal scores end up in the reverse of their
\* order in the list.
RankScoresReversed(scores) ==
  LET Greater(a, b) == a.score > b.score
  IN SortedDescending([i \in DOMAIN scores |-> scores[Len(scores) + 1 - i]],
                      Greater)

\* scores.sort(key=lambda x: x[1], reverse=True)
RankScores(scores) ==
  LET Greater(a, b) == a.score > b.score
  IN SortedDescending(scores, Greater)

\* classify, step by step: the arguments are normalised, the learned
\* patterns are consulted, and only when they give nothing the three
\* categories are scored, ranked and the best one is reported.
classify(patterns_by_category, app_name_in, title, body) ==
  LET Scored(category, s) ==
        [category |-> category, score |-> s.score, matches |-> s.matches]
      Report(learned_result, best, second, app_name) ==
        IF learned_result.kind # "none" THEN learned_result
        ELSE IF best.score = 0
        THEN Return(ClassificationResult("Personal", DefaultConfidence,
               NoPatternsMatched, <<>>))
        ELSE Return(ClassificationResult(best.category,
               ScoreConfidence(best.score, second.score),
               _generate_reasoning(best.category, best.matches, app_name),
               best.matches))
      Ranked(learned_result, scores, app_name) ==
        Report(learned_result, scores[1], scores[2], app_name)
      Normalised(app_name, content) ==
        Ranked(_check_learned_patterns(patterns_by_category, app_name,
                                       content),
               RankScores(<<
                 Scored("Work", CategoryScore("Work", app_name, content)),
                 Scored("Personal",
                        CategoryScore("Personal", app_name, content)),
                 Scored("Junk", CategoryScore("Junk", app_name, content))>>),
               app_name)
  IN Normalised(NormalApp(app_name_in), NormalContent(title, body))


(***************************************************************************)
(* The external store holds one JSON text per category key                 *)
(* ("learned_patterns:<Category>").  A text is kept as the document it     *)
(* spells: an object with its members in order, a number, an array, or a   *)
(* text that is no JSON at all.                                            *)
(***************************************************************************)
JAbsent == [j |-> "absent"]

JEmptyText == [j |-> "empty"]

JInvalid == [j |-> "invalid"]

JArray == [j |-> "array"]

JNumber(f) == [j |-> "number", hi |-> f.hi, lo |-> f.lo]

JObject(members) == [j |-> "object", members |-> members]

\* Mutant: str(value) is stored instead of json.dumps(value); Python's repr
\* of a dict (single quotes) is no JSON text.
json_dumps_as_repr(value) == JInvalid

\* json.dumps(value): a dict becomes an object with one member per item,
\* a float the number its repr spells, a list an array.
RECURSIVE json_dumps(_)
json_dumps(value) ==
  IF IsFloat(value) THEN JNumber(value)
  ELSE IF ~IsDict(value) THEN JArray
  ELSE JObject([i \in 1..Len(value.items) |->
                  [name |-> value.items[i].k,
                   value |-> json_dumps(value.items[i].v)]])

\* json.loads(text) for a text that parses: an object becomes a dict built
\* member by member (a repeated name overwrites), a number the nearest
\* float, an array a list.
RECURSIVE json_loads(_)
RECURSIVE LoadMembers(_, _, _)
LoadMembers(members, i, d) ==
  IF i > Len(members) THEN d
  ELSE LoadMembers(members, i + 1,
                   DictSet(d, members[i].name, json_loads(members[i].value)))

json_loads(doc) ==
  IF doc.j = "number" THEN Float(doc.hi, doc.lo)
  ELSE IF doc.j = "array" THEN PyList
  ELSE LoadMembers(doc.members, 1, EmptyDict)

\* Whether json.loads(text) returns rather than raising JSONDecodeError.
JsonParses(doc) == doc.j \in {"number", "array", "object"}

\* `if patterns:` on what redis get() returned: None and "" are falsy.
Truthy(doc) == doc.j \notin {"absent", "empty"}

CategoryIndex(category) == CHOOSE i \in 1..Len(Categories) : Categories[i] = category

AllEmpty == [category \in NotificationCategory |-> EmptyPatterns]

\* The loop of _load_learned_patterns from the i-th category on.  fail is
\* the position of the category whose get() raises (0: none does); the
\* first exception, from get() or from json.loads(), ends the loop.
RECURSIVE LoadFrom(_, _, _, _)
LoadFrom(store_now, i, fail, loaded) ==
  IF i > Len(Categories) THEN [patterns |-> loaded, warned |-> FALSE]
  ELSE IF fail = i THEN [patterns |-> loaded, warned |-> TRUE]
  ELSE LET doc == store_now[Categories[i]]
       IN IF ~Truthy(doc) THEN LoadFrom(store_now, i + 1, fail, loaded)
          ELSE IF ~JsonParses(doc) THEN [patterns |-> loaded, warned |-> TRUE]
          ELSE LoadFrom(store_now, i + 1, fail,
                 [loaded EXCEPT ![Categories[i]] = json_loads(doc)])

_load_learned_patterns(store_now, client, fail) ==
  IF client THEN LoadFrom(store_now, 1, fail, AllEmpty)
  ELSE [patterns |-> AllEmpty, warned |-> FALSE]

\* Mutant: _save_learned_patterns without its try/except: the exception of
\* the setex that raises leaves the method.
_save_learned_patterns_uncaught(store_now, client, fail, patterns_by_category) ==
  IF ~client THEN [store |-> store_now, exc |-> "", warned |-> FALSE]
  ELSE [store |-> [category \in NotificationCategory |->
                     IF fail = 0 \/ CategoryIndex(category) < fail
                     THEN json_dumps(patterns_by_category[category])
                     ELSE store_now[category]],
        exc |-> IF fail # 0 THEN "ConnectionError" ELSE "", warned |-> FALSE]

\* _save_learned_patterns: one setex per category in table order; the
\* first setex that raises (position fail) ends the loop, and the
\* exception is caught and logged.
_save_learned_patterns(store_now, client, fail, patterns_by_category) ==
  IF ~client THEN [store |-> store_now, exc |-> "", warned |-> FALSE]
  ELSE [store |-> [category \in NotificationCategory |->
                     IF fail = 0 \/ CategoryIndex(category) < fail
                     THEN json_dumps(patterns_by_category[category])
                     ELSE store_now[category]],
        exc |-> "", warned |-> fail # 0]

\* The delete loop of reset_learned_patterns, with the same failure rule.
DeleteKeys(store_now, client, fail) ==
  IF ~client THEN [store |-> store_now, exc |-> "", warned |-> FALSE]
  ELSE [store |-> [category \in NotificationCategory |->
                     IF fail = 0 \/ CategoryIndex(category) < fail
                     THEN JAbsent ELSE store_now[category]],
        exc |-> "", warned |-> fail # 0]

(***************************************************************************)
(* Learning.                                                               *)
(***************************************************************************)
\* Mutant: the predicted category is kept as the actual one.
UserFeedbackAsPredicted(app_name, title, body, predicted_category, actual_category) ==
  [app_name |-> app_name, title |-> title, body |-> body,
   predicted_category |-> predicted_category,
   actual_category |-> predicted_category]

UserFeedback(app_name, title, body, predicted_category, actual_category) ==
  [app_name |-> app_name, title |-> title, body |-> body,
   predicted_category |-> predicted_category,
   actual_category |-> actual_category]

\* d.setdefault(k, {}) on the patterns of one category.
SetDefault(d, k) == IF DictHas(d, k) THEN d ELSE DictSet(d, k, EmptyDict)

\* Mutant: the app name is learned without the `if app_name:` test.
LearnsAppAlways(app_name) == TRUE

\* `if app_name:`
LearnsApp(app_name) == app_name # <<>>

\* Mutant: the increment is added to the 0.5 default instead of the current
\* confidence.
NextAppConfidenceFromDefault(current_confidence) ==
  FloatMin(AppCeiling, FloatAdd(DefaultConfidence, AppIncrement))

\* min(0.95, current_confidence + 0.1)
NextAppConfidence(current_confidence) ==
  FloatMin(AppCeiling, FloatAdd(current_confidence, AppIncrement))

\* Mutant: the content confidence is not clamped.
NextContentConfidenceUnclamped(current_confidence) ==
  FloatAdd(current_confidence, ContentIncrement)

\* Mutant: the content confidence is clamped to the apps' ceiling.
NextContentConfidenceAppCeiling(current_confidence) ==
  FloatMin(AppCeiling, FloatAdd(current_confidence, ContentIncrement))

\* min(0.9, current_confidence + 0.05)
NextContentConfidence(current_confidence) ==
  FloatMin(ContentCeiling, FloatAdd(current_confidence, ContentIncrement))

\* Mutant: the apps map is replaced by one that holds this app alone.
LearnAppAlone(patterns, app_name) ==
  [patterns |->
     DictSet(SetDefault(patterns, "apps"), "apps",
             Dict(<<[k |-> app_name,
                     v |-> NextAppConfidence(DefaultConfidence)]>>)),
   exc |-> ""]

\* "Learn from app name": the body of `if app_name:`.
LearnApp(patterns, app_name) ==
  IF ~IsDict(patterns) THEN [patterns |-> patterns, exc |-> "AttributeError"]
  ELSE LET with_apps == SetDefault(patterns, "apps")
           apps == DictGet(with_apps, "apps", EmptyDict)
       IN IF ~IsDict(apps)
          THEN [patterns |-> with_apps, exc |-> "AttributeError"]
          ELSE LET current_confidence ==
                     DictGet(apps, app_name, DefaultConfidence)
                   confidence == NextAppConfidence(current_confidence)
               IN [patterns |->
                     DictSet(with_apps, "apps",
                             DictSet(apps, app_name, confidence)),
                   exc |-> ""]

\* The body of `if len(word) > 3:` for one word.
LearnWord(patterns, word) ==
  IF ~IsDict(patterns) THEN [patterns |-> patterns, exc |-> "AttributeError"]
  ELSE LET with_content == SetDefault(patterns, "content")
           content_patterns == DictGet(with_content, "content", EmptyDict)
       IN IF ~IsDict(content_patterns)
          THEN [patterns |-> with_content, exc |-> "AttributeError"]
          ELSE LET current_confidence ==
                     DictGet(content_patterns, word, DefaultConfidence)
                   confidence == NextContentConfidence(current_confidence)
               IN [patterns |->
                     DictSet(with_content, "content",
                             DictSet(content_patterns, word, confidence)),
                   exc |-> ""]

MaxLearnedWords == 5

\* Mutant: words of three characters are learned too.
ShortWordLengthBelowThree == 1 + 1

ShortWordLength == 3

\* for word in content_words[:5], from the i-th word on.
RECURSIVE LearnWords(_, _, _)
LearnWords(patterns, words, i) ==
  IF i > Len(words) \/ i > MaxLearnedWords
  THEN [patterns |-> patterns, exc |-> ""]
  ELSE IF Len(words[i]) > ShortWordLength
  THEN LET step == LearnWord(patterns, words[i])
       IN IF step.exc # "" THEN step
          ELSE LearnWords(step.patterns, words, i + 1)
  ELSE LearnWords(patterns, words, i + 1)

\* learn_from_feedback up to the save: the updated table and the exception
\* that ended the call, if any.
learn_from_feedback(patterns_by_category, feedback) ==
  LET app_name == NormalApp(feedback.app_name)
      content == NormalContent(feedback.title, feedback.body)
      correct_category == feedback.actual_category
      table == [category \in DOMAIN patterns_by_category \cup {correct_category}
                  |-> IF category \in DOMAIN patterns_by_category
                      THEN patterns_by_category[category]
                      ELSE EmptyPatterns]
      app_step == IF LearnsApp(app_name)
                  THEN LearnApp(table[correct_category], app_name)
                  ELSE [patterns |-> table[correct_category], exc |-> ""]
      content_words == FindWords(content)
      word_step == IF app_step.exc # "" THEN app_step
                   ELSE LearnWords(app_step.patterns, content_words, 1)
  IN [patterns |-> [table EXCEPT ![correct_category] = word_step.patterns],
      exc |-> word_step.exc]

(***************************************************************************)
(* Statistics.                                                             *)
(***************************************************************************)
TopApps == 5

TopContentPatterns == 10

\* Mutant: the items are cut to n without being sorted.
TopItemsUnsorted(d, n) ==
  SubSeq(d.items, 1, IF Len(d.items) < n THEN Len(d.items) ELSE n)

\* sorted(d.items(), key=lambda x: x[1], reverse=True)[:n]
TopItems(d, n) ==
  LET Greater(a, b) == FloatLess(b.v, a.v)
      sorted == SortedDescending(d.items, Greater)
  IN SubSeq(sorted, 1, IF Len(sorted) < n THEN Len(sorted) ELSE n)

\* len(d) for a dict or a list read from the store.
PyLen(v) == IF IsDict(v) THEN Len(v.items) ELSE 0

CategoryStats(patterns) ==
  LET apps_dict == DictGet(patterns, "apps", EmptyDict)
      content_dict == DictGet(patterns, "content", EmptyDict)
  IN [learned_apps |-> PyLen(apps_dict),
      learned_content_patterns |-> PyLen(content_dict),
      top_apps |-> TopItems(apps_dict, TopApps),
      top_content_patterns |-> TopItems(content_dict, TopContentPatterns)]

get_category_stats(patterns_by_category) ==
  IF \E category \in NotificationCategory :
       \/ ~IsDict(patterns_by_category[category])
       \/ ~IsDict(DictGet(patterns_by_category[category], "apps", EmptyDict))
       \/ ~IsDict(DictGet(patterns_by_category[category], "content", EmptyDict))
  THEN Raise("AttributeError")
  ELSE Return([category \in NotificationCategory |->
                 CategoryStats(patterns_by_category[category])])

(***************************************************************************)
(* The service: one classifier instance over the external store.           *)
(***************************************************************************)
\* How many learn_from_feedback calls a behaviour makes.
MaxFeedback == 6

\* How many store calls (ping, get, setex, delete) raise, or keys expire,
\* in a behaviour.
MaxFaults == 1

VARIABLES
  learned_patterns,  \* self.learned_patterns: category -> patterns
  redis_client,      \* whether self.redis_client is a client (not None)
  store,             \* the external store: category key -> stored text
  ret,               \* the last call: operation, arguments, outcome, and
                     \* whether it logged a warning
  feedback_count,    \* learn_from_feedback calls made so far
  faults,            \* store calls that raised and keys that expired so far
  store_reliable,    \* so far a client was configured, no store call
                     \* raised and no key expired
  loop,              \* the event loop: the request handlers in flight
  peer               \* self.learned_patterns of a second service process on
                     \* the same store, None when there is none

vars == <<learned_patterns, redis_client, store, ret, feedback_count, faults,
          store_reliable, loop, peer>>

\* No request is in flight.
Idle == [running |-> 0, pc |-> <<>>, local |-> <<>>, order |-> <<>>,
         responses |-> <<>>]

Call(op, args, outcome, warned) ==
  [op |-> op, args |-> args, outcome |-> outcome, warned |-> warned]

\* The positions at which a store call of this operation may raise.
Failures == {fail \in 0..Len(Categories) :
               fail # 0 => (redis_client /\ faults < MaxFaults)}

Faulted(fail) == IF fail = 0 THEN faults ELSE faults + 1

\* NotificationClassifier(redis_client) on the store as it is.
Construct(store_now, client, fail) ==
  LET loaded == _load_learned_patterns(store_now, client, fail)
  IN /\ learned_patterns' = loaded.patterns
     /\ redis_client' = client
     /\ ret' = Call("__init__", <<>>, None, loaded.warned)

\* A fresh deployment: the store holds no key.  main.py pings the store
\* and runs without a client when the ping raises.
Init ==
  /\ store = [category \in NotificationCategory |-> JAbsent]
  /\ redis_client \in BOOLEAN
  /\ learned_patterns = AllEmpty
  /\ ret = Call("__init__", <<>>, None, FALSE)
  /\ feedback_count = 0
  /\ faults = IF redis_client THEN 0 ELSE 1
  /\ store_reliable = redis_client
  /\ loop = Idle
  /\ peer = None

\* Mutant: classify saves the learned patterns after it has classified.
ClassifyAndSave(app_name, title, body) ==
  /\ ret' = Call("classify", <<app_name, title, body>>,
                 classify(learned_patterns, app_name, title, body), FALSE)
  /\ store' = _save_learned_patterns(store, redis_client, 0,
                                     learned_patterns).store
  /\ UNCHANGED <<learned_patterns, redis_client, feedback_count, faults,
                 store_reliable, loop, peer>>

Classify(app_name, title, body) ==
  /\ ret' = Call("classify", <<app_name, title, body>>,
                 classify(learned_patterns, app_name, title, body), FALSE)
  /\ UNCHANGED <<learned_patterns, redis_client, store, feedback_count,
                 faults, store_reliable, loop, peer>>

LearnFromFeedback(feedback, fail) ==
  /\ feedback_count < MaxFeedback
  /\ LET learned == learn_from_feedback(learned_patterns, feedback)
         saved == _save_learned_patterns(store, redis_client, fail,
                                         learned.patterns)
     IN /\ learned_patterns' = learned.patterns
        /\ IF learned.exc # ""
           THEN /\ ret' = Call("learn_from_feedback", feedback,
                               Raise(learned.exc), FALSE)
                /\ UNCHANGED <<store, faults, store_reliable>>
           ELSE /\ store' = saved.store
                /\ ret' = Call("learn_from_feedback", feedback,
                               IF saved.exc # "" THEN Raise(saved.exc)
                               ELSE None,
                               saved.warned)
                /\ faults' = Faulted(fail)
                /\ store_reliable' = (store_reliable /\ fail = 0)
  /\ feedback_count' = feedback_count + 1
  /\ UNCHANGED <<redis_client, loop, peer>>

GetCategoryStats ==
  /\ ret' = Call("get_category_stats", <<>>,
                 get_category_stats(learned_patterns), FALSE)
  /\ UNCHANGED <<learned_patterns, redis_client, store, feedback_count,
                 faults, store_reliable, loop, peer>>

\* Mutant: the table is reset inside the try block, after the deletes, so a
\* delete that raises leaves it as it was.
ResetAfterDelete(fail) ==
  LET deleted == DeleteKeys(store, redis_client, fail)
  IN /\ learned_patterns' = IF deleted.warned THEN learned_patterns
                             ELSE AllEmpty
     /\ store' = deleted.store
     /\ ret' = Call("reset_learned_patterns", <<>>, None, deleted.warned)
     /\ faults' = Faulted(fail)
     /\ store_reliable' = (store_reliable /\ fail = 0)
     /\ UNCHANGED <<redis_client, feedback_count, loop, peer>>

\* Mutant: the reset leaves each category as {} without its two maps.
ResetToBare(fail) ==
  LET deleted == DeleteKeys(store, redis_client, fail)
  IN /\ learned_patterns' = [category \in NotificationCategory |-> EmptyDict]
     /\ store' = deleted.store
     /\ ret' = Call("reset_learned_patterns", <<>>, None, deleted.warned)
     /\ faults' = Faulted(fail)
     /\ store_reliable' = (store_reliable /\ fail = 0)
     /\ UNCHANGED <<redis_client, feedback_count, loop, peer>>

ResetLearnedPatterns(fail) ==
  LET deleted == DeleteKeys(store, redis_client, fail)
  IN /\ learned_patterns' = AllEmpty
     /\ store' = deleted.store
     /\ ret' = Call("reset_learned_patterns", <<>>,
                    IF deleted.exc # "" THEN Raise(deleted.exc) ELSE None,
                    deleted.warned)
     /\ faults' = Faulted(fail)
     /\ store_reliable' = (store_reliable /\ fail = 0)
     /\ UNCHANGED <<redis_client, feedback_count, loop, peer>>

\* The process restarts: main.py connects (or fails to) and constructs a
\* new classifier on the same store.
Restart(client, fail) ==
  /\ ~client => faults < MaxFaults
  /\ Construct(store, client, fail)
  /\ faults' = IF client THEN Faulted(fail) ELSE faults + 1
  /\ store_reliable' = (store_reliable /\ client /\ fail = 0)
  /\ UNCHANGED <<store, feedback_count, loop, peer>>

\* The 30-day time to live runs out.  Every save rewrites the three keys
\* with the same time to live, so they run out together.
Expire ==
  /\ \E category \in NotificationCategory : store[category] # JAbsent
  /\ faults < MaxFaults
  /\ store' = [category \in NotificationCategory |-> JAbsent]
  /\ faults' = faults + 1
  /\ store_reliable' = FALSE
  /\ UNCHANGED <<learned_patterns, redis_client, ret, feedback_count, loop, peer>>

Next ==
  \/ \E input \in ClassifyInputs : Classify(input[1], input[2], input[3])
  \/ \E input \in FeedbackInputs, fail \in Failures :
       LearnFromFeedback(
         UserFeedback(input[1], input[2], input[3], input[4], input[5]), fail)
  \/ GetCategoryStats
  \/ \E fail \in Failures : ResetLearnedPatterns(fail)
  \/ \E client \in BOOLEAN, fail \in 0..Len(Categories) :
       /\ fail # 0 => (client /\ faults < MaxFaults)
       /\ Restart(client, fail)
  \/ Expire

Spec == Init /\ [][Next]_vars

(***************************************************************************)
(* The service started on a store that already holds texts, written by     *)
(* this program or not: an absent key, a text that is no JSON, the JSON    *)
(* array [], or the patterns of a category as this program writes them.    *)
(***************************************************************************)
StoredPatterns ==
  Dict(<<[k |-> "apps",
          v |-> Dict(<<[k |-> Chars("testapp"), v |-> Float(214748364, 429496720)]>>)],
         [k |-> "content",
          v |-> Dict(<<[k |-> Chars("urgent"), v |-> Float(201326592, 32)]>>)]>>)

StoredDocs == {JAbsent, JInvalid, JArray, json_dumps(StoredPatterns)}

\* How many learn_from_feedback calls a behaviour makes on such a store.
MaxStoredFeedback == 2

InitStored ==
  /\ store \in [NotificationCategory -> StoredDocs]
  /\ redis_client = TRUE
  /\ \E fail \in 0..Len(Categories) :
       LET loaded == _load_learned_patterns(store, TRUE, fail)
       IN /\ learned_patterns = loaded.patterns
          /\ ret = Call("__init__", <<>>, None, loaded.warned)
          /\ faults = IF fail = 0 THEN 0 ELSE 1
          /\ store_reliable = (fail = 0)
  /\ feedback_count = 0
  /\ loop = Idle
  /\ peer = None

NextStored ==
  \/ \E input \in ClassifyInputs : Classify(input[1], input[2], input[3])
  \/ \E input \in FeedbackInputs, fail \in Failures :
       /\ feedback_count < MaxStoredFeedback
       /\ LearnFromFeedback(
            UserFeedback(input[1], input[2], input[3], input[4], input[5]),
            fail)
  \/ GetCategoryStats
  \/ \E fail \in Failures : ResetLearnedPatterns(fail)
  \/ \E client \in BOOLEAN, fail \in 0..Len(Categories) :
       /\ fail # 0 => (client /\ faults < MaxFaults)
       /\ Restart(client, fail)

SpecStored == InitStored /\ [][NextStored]_vars

(***************************************************************************)
(* The classifier before any feedback, called with the notifications of    *)
(* ScoreInputs: every result comes from the keyword tables.                *)
(***************************************************************************)
NextScore ==
  \E input \in ScoreInputs : Classify(input[1], input[2], input[3])

SpecScore == Init /\ [][NextScore]_vars

(***************************************************************************)
(* The HTTP service of main.py over the one classifier instance.  A        *)
(* handler's outcome is the response it sends: the status code and the    *)
(* JSON body, or the detail of the HTTPException it raised.               *)
(***************************************************************************)
Response(status, body) == [kind |-> "response", status |-> status, body |-> body]

\* The body of a POST /feedback request; title and body may be absent.
FeedbackRequest(app_name, title, body, predicted_category, actual_category) ==
  [app_name |-> app_name, title |-> title, body |-> body,
   predicted_category |-> predicted_category,
   actual_category |-> actual_category]

\* The body of a POST /classify request; title and body may be absent.
NotificationData(app_name, title, body) ==
  [app_name |-> app_name, title |-> title, body |-> body]

\* Mutant: only actual_category is converted to a NotificationCategory.
InvalidCategoryActualOnly(feedback) ==
  feedback.actual_category \notin NotificationCategory

\* NotificationCategory(feedback.predicted_category) or
\* NotificationCategory(feedback.actual_category) raises ValueError: the
\* string is not the value of a member.
InvalidCategory(feedback) ==
  \/ feedback.predicted_category \notin NotificationCategory
  \/ feedback.actual_category \notin NotificationCategory

\* How many POST /feedback requests with valid categories a behaviour makes.
MaxServiceFeedback == 3

\* POST /feedback
SubmitFeedback(feedback, fail) ==
  IF InvalidCategory(feedback)
  THEN /\ fail = 0
       /\ ret' = Call("submit_feedback", feedback,
                      Response(400, "Invalid category"), FALSE)
       /\ UNCHANGED <<learned_patterns, redis_client, store, feedback_count,
                      faults, store_reliable, loop, peer>>
  ELSE /\ feedback_count < MaxServiceFeedback
       /\ LET user_feedback ==
                UserFeedback(feedback.app_name, OrEmpty(feedback.title),
                             OrEmpty(feedback.body),
                             feedback.predicted_category,
                             feedback.actual_category)
              learned == learn_from_feedback(learned_patterns, user_feedback)
              saved == _save_learned_patterns(store, redis_client, fail,
                                              learned.patterns)
          IN /\ learned_patterns' = learned.patterns
             /\ IF learned.exc # ""
                THEN /\ ret' = Call("submit_feedback", feedback,
                                    Response(500, "Feedback processing failed"), FALSE)
                     /\ UNCHANGED <<store, faults, store_reliable>>
                ELSE /\ store' = saved.store
                     /\ ret' = Call("submit_feedback", feedback,
                                    IF saved.exc # ""
                                    THEN Response(500, "Feedback processing failed")
                                    ELSE Response(200,
                                           <<"success", feedback.app_name,
                                             feedback.predicted_category,
                                             feedback.actual_category>>),
                                    saved.warned)
                     /\ faults' = Faulted(fail)
                     /\ store_reliable' = (store_reliable /\ fail = 0)
       /\ feedback_count' = feedback_count + 1
       /\ UNCHANGED <<redis_client, loop, peer>>

\* POST /classify
ClassifyNotification(notification) ==
  LET result == classify(learned_patterns, notification.app_name,
                         OrEmpty(notification.title),
                         OrEmpty(notification.body))
  IN /\ ret' = Call("classify_notification", notification,
                    IF result.kind = "return"
                    THEN Response(200, result.value)
                    ELSE Response(500, "Classification failed"),
                    FALSE)
     /\ UNCHANGED <<learned_patterns, redis_client, store, feedback_count,
                    faults, store_reliable, loop, peer>>

FeedbackRequests ==
  {FeedbackRequest(Chars("TestApp"), Chars("None none none"),
                   Chars("none none"), "Work", "Junk"),
   FeedbackRequest(Chars("TestApp"), PyNone, PyNone, "Personal", "Work"),
   FeedbackRequest(Chars(""), Chars("ΟΔΟΣ ΟΔΟΣ ΟΔΟΣ"), Chars("ΟΔΟΣ ΟΔΟΣ"),
                   "Personal", "Work"),
   FeedbackRequest(Chars("TestApp"), Chars("Test notification"),
                   Chars("Test body"), "InvalidCategory", "Work"),
   FeedbackRequest(Chars("TestApp"), PyNone, PyNone, "Work", "work")}

Notifications ==
  {NotificationData(Chars("TestApp"), PyNone, PyNone),
   NotificationData(Chars("SLACK"), Chars("MEETING REMINDER"),
                    Chars("URGENT"))}

NextService ==
  \/ \E feedback \in FeedbackRequests, fail \in Failures :
       SubmitFeedback(feedback, fail)
  \/ \E notification \in Notifications : ClassifyNotification(notification)
  \/ \E input \in DirectInputs : Classify(input[1], input[2], input[3])

SpecService == Init /\ [][NextService]_vars

(***************************************************************************)
(* Requests in flight.  uvicorn.run(app) serves the requests of the        *)
(* process on one event loop, and every handler is a coroutine (async     *)
(* def): the loop runs a handler until it returns or reaches an await     *)
(* expression, and only then turns to another one.                        *)
(***************************************************************************)
\* The requests in flight, by number.
Requests ==
  <<[path |-> "feedback",
     body |-> FeedbackRequest(Chars("TestApp"), Chars("Urgent urgent urgent"),
                              Chars("urgent urgent"), "Personal", "Junk")],
    [path |-> "feedback",
     body |-> FeedbackRequest(Chars("TestApp"), Chars("Urgent urgent urgent"),
                              Chars("urgent urgent"), "Personal", "Junk")],
    [path |-> "classify",
     body |-> NotificationData(Chars("TestApp"), Chars("Urgent"), PyNone)],
    [path |-> "stats", body |-> <<>>],
    [path |-> "reset", body |-> <<>>]>>

\* The statements of a handler, with the calls it makes unfolded.
Statements(path) ==
  CASE path = "feedback" -> <<"parse", "get", "set", "words", "save", "respond">>
    [] path = "classify" -> <<"classify", "respond">>
    [] path = "stats" -> <<"get_category_stats", "respond">>
    [] path = "reset" -> <<"clear", "delete", "respond">>

\* Mutant: the handler awaits between reading the current confidence and
\* writing the new one.
AwaitAfterGet == {"get"}

\* The statements after which a handler awaits: no handler holds an await
\* expression.
AwaitPoints == {}

\* The body of the GET /stats response.
StatsResponse(stats, client) ==
  LET Learned(category) ==
        stats[category].learned_apps + stats[category].learned_content_patterns
  IN [category_stats |-> stats,
      total_learned_patterns |->
        Learned("Work") + Learned("Personal") + Learned("Junk"),
      redis_connected |-> client]

\* The event loop runs the next statement of the handler of request r.
Run(r) ==
  LET request == Requests[r]
      statements == Statements(request.path)
      statement == statements[loop.pc[r]]
      local == loop.local[r]
      \* The loop after the statement: the handler goes on at next_pc.
      Go(next_pc, next_local, response) ==
        [running |-> IF next_pc > Len(statements) \/ statement \in AwaitPoints
                     THEN 0 ELSE r,
         pc |-> [loop.pc EXCEPT ![r] = next_pc],
         local |-> [loop.local EXCEPT ![r] = next_local],
         order |-> IF loop.pc[r] = 1 THEN Append(loop.order, r)
                   ELSE loop.order,
         responses |-> [loop.responses EXCEPT ![r] = response]]
      Step(next_local) == Go(loop.pc[r] + 1, next_local, None)
      Respond(response) == Go(Len(statements) + 1, local, response)
      category == local.actual_category
      app_name == NormalApp(local.app_name)
      patterns == learned_patterns[category]
  IN /\ loop.running \in {0, r}
     /\ loop.pc[r] <= Len(statements)
     /\ CASE statement = "parse" ->
               /\ loop' = IF InvalidCategory(request.body)
                          THEN Respond(Response(400, "Invalid category"))
                          ELSE Step(UserFeedback(request.body.app_name,
                                      OrEmpty(request.body.title),
                                      OrEmpty(request.body.body),
                                      request.body.predicted_category,
                                      request.body.actual_category))
               /\ UNCHANGED <<learned_patterns, store, feedback_count>>
          [] statement = "get" ->
               LET with_apps == SetDefault(patterns, "apps")
               IN /\ learned_patterns' =
                       IF LearnsApp(app_name)
                       THEN [learned_patterns EXCEPT ![category] = with_apps]
                       ELSE learned_patterns
                  /\ loop' = Step([feedback |-> local,
                                   current_confidence |->
                                     DictGet(DictGet(with_apps, "apps", EmptyDict),
                                             app_name, DefaultConfidence)])
                  /\ feedback_count' = feedback_count + 1
                  /\ UNCHANGED store
          [] statement = "set" ->
               /\ learned_patterns' =
                    IF LearnsApp(NormalApp(local.feedback.app_name))
                    THEN LET to == local.feedback.actual_category
                             apps == DictGet(learned_patterns[to], "apps",
                                             EmptyDict)
                         IN [learned_patterns EXCEPT ![to] =
                               DictSet(@, "apps",
                                 DictSet(apps,
                                   NormalApp(local.feedback.app_name),
                                   NextAppConfidence(local.current_confidence)))]
                    ELSE learned_patterns
               /\ loop' = Step(local.feedback)
               /\ UNCHANGED <<store, feedback_count>>
          [] statement = "words" ->
               /\ learned_patterns' =
                    [learned_patterns EXCEPT ![category] =
                       LearnWords(patterns,
                         FindWords(NormalContent(local.title, local.body)),
                         1).patterns]
               /\ loop' = Step(local)
               /\ UNCHANGED <<store, feedback_count>>
          [] statement = "save" ->
               /\ store' = _save_learned_patterns(store, redis_client, 0,
                                                  learned_patterns).store
               /\ loop' = Step(local)
               /\ UNCHANGED <<learned_patterns, feedback_count>>
          [] statement = "classify" ->
               /\ loop' = Step(classify(learned_patterns, request.body.app_name,
                                        OrEmpty(request.body.title),
                                        OrEmpty(request.body.body)))
               /\ UNCHANGED <<learned_patterns, store, feedback_count>>
          [] statement = "get_category_stats" ->
               /\ loop' = Step(get_category_stats(learned_patterns))
               /\ UNCHANGED <<learned_patterns, store, feedback_count>>
          [] statement = "clear" ->
               /\ learned_patterns' = AllEmpty
               /\ loop' = Step(local)
               /\ UNCHANGED <<store, feedback_count>>
          [] statement = "delete" ->
               /\ store' = DeleteKeys(store, redis_client, 0).store
               /\ loop' = Step(local)
               /\ UNCHANGED <<learned_patterns, feedback_count>>
          [] statement = "respond" ->
               /\ loop' =
                    Respond(
                      CASE request.path = "feedback" ->
                             Response(200, <<"success", local.app_name,
                                             local.predicted_category,
                                             local.actual_category>>)
                        [] request.path = "classify" ->
                             IF local.kind = "return"
                             THEN Response(200, local.value)
                             ELSE Response(500, "Classification failed")
                        [] request.path = "stats" ->
                             IF local.kind = "return"
                             THEN Response(200, StatsResponse(local.value,
                                                              redis_client))
                             ELSE Response(500, "Stats retrieval failed")
                        [] request.path = "reset" ->
                             Response(200, "success"))
               /\ UNCHANGED <<learned_patterns, store, feedback_count>>
     /\ UNCHANGED <<redis_client, ret, faults, store_reliable, peer>>

\* The service has started on an empty store and the requests have arrived.
InitLoop ==
  /\ store = [category \in NotificationCategory |-> JAbsent]
  /\ redis_client = TRUE
  /\ learned_patterns = AllEmpty
  /\ ret = Call("__init__", <<>>, None, FALSE)
  /\ feedback_count = 0
  /\ faults = 0
  /\ store_reliable = TRUE
  /\ loop = [running |-> 0,
             pc |-> [r \in DOMAIN Requests |-> 1],
             local |-> [r \in DOMAIN Requests |-> None],
             order |-> <<>>,
             responses |-> [r \in DOMAIN Requests |-> None]]
  /\ peer = None

NextLoop == \E r \in DOMAIN Requests : Run(r)

SpecLoop == InitLoop /\ [][NextLoop]_vars

(***************************************************************************)
(* The service restarted on the store of an earlier run, with feedback     *)
(* whose content has short tokens, more than five tokens and repeated      *)
(* tokens, and with enough learned entries for the top lists of            *)
(* get_category_stats to be cut.  The store answers every call.            *)
(***************************************************************************)
\* The feedback of the earlier run, in order.
EarlierFeedback ==
  <<UserFeedback(Chars("Slack"), Chars("alpha bravo charlie delta echo"),
                 Chars(""), "Personal", "Work"),
    UserFeedback(Chars("Zoom"), Chars("foxtrot golf hotel india juliet"),
                 Chars(""), "Personal", "Work"),
    UserFeedback(Chars("Jira"), Chars("hotel hotel"), Chars(""),
                 "Personal", "Work"),
    UserFeedback(Chars("Teams"), Chars(""), Chars(""), "Personal", "Work"),
    UserFeedback(Chars("Mail App"), Chars(""), Chars(""), "Personal", "Work"),
    UserFeedback(Chars("Jira"), Chars(""), Chars(""), "Personal", "Work"),
    UserFeedback(Chars("Mail App"), Chars("kilo lima"), Chars(""),
                 "Work", "Junk"),
    UserFeedback(Chars("Mail App"), Chars("kilo lima"), Chars(""),
                 "Work", "Junk"),
    UserFeedback(Chars("Mail App"), Chars("kilo lima"), Chars(""),
                 "Work", "Junk")>>

\* learn_from_feedback called with each of the events from the i-th on.
RECURSIVE LearnAll(_, _, _)
LearnAll(patterns_by_category, events, i) ==
  IF i > Len(events) THEN patterns_by_category
  ELSE LearnAll(learn_from_feedback(patterns_by_category, events[i]).patterns,
                events, i + 1)

\* Feedback events: app name, title, body, predicted and actual category.
LearnInputs ==
  {<<Chars(""), Chars("the big meeting about new"), Chars("project deadline"),
     "Personal", "Work">>,
   <<Chars("Mail App"), Chars("mike november oscar papa quebec"),
     Chars("romeo"), "Work", "Junk">>,
   <<Chars("Outlook"), Chars(""), Chars(""), "Junk", "Work">>,
   <<Chars("Outlook"), Chars(""), Chars(""), "Work", "Work">>,
   <<Chars(" MAIL APP "), Chars("sale sale now"), Chars(""),
     "Junk", "Work">>}

LearnClassifyInputs ==
  {Strings(<<"Mail App", "50% OFF Sale!", "Buy 1 get 1, free shipping">>),
   Strings(<<"mail app", "", "">>)}

\* How many learn_from_feedback calls a behaviour makes after the restart.
MaxLearnFeedback == 3

InitLearn ==
  /\ store = _save_learned_patterns(
               [category \in NotificationCategory |-> JAbsent], TRUE, 0,
               LearnAll(AllEmpty, EarlierFeedback, 1)).store
  /\ redis_client = TRUE
  /\ learned_patterns = _load_learned_patterns(store, TRUE, 0).patterns
  /\ ret = Call("__init__", <<>>, None, FALSE)
  /\ feedback_count = 0
  /\ faults = 0
  /\ store_reliable = TRUE
  /\ loop = Idle
  /\ peer = None

NextLearn ==
  \/ \E input \in LearnClassifyInputs :
       Classify(input[1], input[2], input[3])
  \/ \E input \in LearnInputs :
       /\ feedback_count < MaxLearnFeedback
       /\ LearnFromFeedback(
            UserFeedback(input[1], input[2], input[3], input[4], input[5]), 0)
  \/ GetCategoryStats
  \/ ResetLearnedPatterns(0)

SpecLearn == InitLearn /\ [][NextLearn]_vars

(***************************************************************************)
(* Two service processes on one store.  Each process runs main.py, which   *)
(* connects to the Redis of REDIS_HOST and constructs its own classifier:  *)
(* each holds its own self.learned_patterns, loaded when it started, and   *)
(* each save writes the three keys from the memory of the process saving.  *)
(* The store answers every call.                                           *)
(***************************************************************************)
\* How many learn_from_feedback calls the two processes make together.
MaxSharedFeedback == 2

\* learn_from_feedback in the second process.
PeerLearnFromFeedback(feedback) ==
  /\ peer # None
  /\ feedback_count < MaxSharedFeedback
  /\ LET learned == learn_from_feedback(peer, feedback)
     IN /\ peer' = learned.patterns
        /\ store' = IF learned.exc # "" THEN store
                    ELSE _save_learned_patterns(store, TRUE, 0,
                                                learned.patterns).store
  /\ feedback_count' = feedback_count + 1
  /\ UNCHANGED <<learned_patterns, redis_client, ret, faults, store_reliable,
                 loop>>

\* The second process restarts and loads what the store holds.
PeerRestart ==
  /\ peer # None
  /\ peer' = _load_learned_patterns(store, TRUE, 0).patterns
  /\ peer' # peer
  /\ UNCHANGED <<learned_patterns, redis_client, store, ret, feedback_count,
                 faults, store_reliable, loop>>

InitShared ==
  /\ store = [category \in NotificationCategory |-> JAbsent]
  /\ redis_client = TRUE
  /\ learned_patterns = _load_learned_patterns(store, TRUE, 0).patterns
  /\ peer = _load_learned_patterns(store, TRUE, 0).patterns
  /\ ret = Call("__init__", <<>>, None, FALSE)
  /\ feedback_count = 0
  /\ faults = 0
  /\ store_reliable = TRUE
  /\ loop = Idle

NextShared ==
  \/ \E input \in LearnInputs :
       /\ feedback_count < MaxSharedFeedback
       /\ LearnFromFeedback(
            UserFeedback(input[1], input[2], input[3], input[4], input[5]), 0)
  \/ \E input \in LearnInputs :
       PeerLearnFromFeedback(
         UserFeedback(input[1], input[2], input[3], input[4], input[5]))
  \/ Restart(TRUE, 0)
  \/ PeerRestart

SpecShared == InitShared /\ [][NextShared]_vars

(***************************************************************************)
(* The claims.  A call is observed through ret, which holds the last call  *)
(* with its arguments and outcome; classify and get_category_stats leave   *)
(* learned_patterns as it was when they ran.                               *)
(***************************************************************************)
LearnedPrefix == Chars("Learned from user feedback")

Apps(category) == DictGet(learned_patterns[category], "apps", EmptyDict)

Content(category) == DictGet(learned_patterns[category], "content", EmptyDict)

\* The learned app confidence of app name a in the category is above 0.7.
AppAbove(category, a) ==
  /\ DictHas(Apps(category), a)
  /\ FloatLess(LearnedThreshold, DictGet(Apps(category), a, FloatZero))

\* Some learned content token of the category occurs in the content with a
\* confidence above 0.7.
ContentAbove(category, content) ==
  \E i \in DOMAIN Content(category).items :
    /\ Contains(Content(category).items[i].k, content)
    /\ FloatLess(LearnedThreshold, Content(category).items[i].v)

Classified == ret.op = "classify"

ClassifiedApp == NormalApp(ret.args[1])

ClassifiedContent == NormalContent(ret.args[2], ret.args[3])

\* The last call returned a learned override for the category.
OverrideFor(category) ==
  /\ ret.outcome.kind = "return"
  /\ ret.outcome.value.category = category
  /\ Contains(LearnedPrefix, ret.outcome.value.reasoning)

\* C1 as claimed: whenever the learned app confidence of app name a in
\* category C is above 0.7, classify(a, title, body) returns category C with
\* reasoning containing "Learned from user feedback", for every title and
\* body.
C1_AppOverrideAlwaysWins ==
  Classified =>
    \A category \in NotificationCategory :
      AppAbove(category, ClassifiedApp) => OverrideFor(category)

\* C1 amended: whenever the learned app confidence of app name a in category
\* C is above 0.7, classify(a, title, body) returns a learned override
\* (reasoning containing "Learned from user feedback"), and its category is
\* C provided no category before C in the order Work, Personal, Junk holds
\* an app entry for a, or a content token occurring in the content, with a
\* confidence above 0.7.
C1_AppOverrideWinsInScanOrder ==
  Classified =>
    \A ci \in 1..Len(Categories) :
      AppAbove(Categories[ci], ClassifiedApp) =>
        /\ \E category \in NotificationCategory : OverrideFor(category)
        /\ (\A cj \in 1..(ci - 1) :
              /\ ~AppAbove(Categories[cj], ClassifiedApp)
              /\ ~ContentAbove(Categories[cj], ClassifiedContent))
           => OverrideFor(Categories[ci])

\* A TestApp notification whose title and body score for Work and Junk in
\* the keyword tables is classified Personal from the learned app entry.
C1_Witness ==
  /\ Classified
  /\ ret.args = Strings(<<"TESTAPP", "Urgent", "50% off">>)
  /\ AppAbove("Personal", ClassifiedApp)
  /\ CategoryScore("Personal", ClassifiedApp, ClassifiedContent).score
       < CategoryScore("Junk", ClassifiedApp, ClassifiedContent).score
  /\ OverrideFor("Personal")

InUnitInterval(confidence) ==
  FloatLeq(FloatZero, confidence) /\ FloatLeq(confidence, FloatOne)

\* C2: every classify call returns a category among Work, Personal, Junk
\* and a confidence in [0, 1], on the learned-override path and on the
\* keyword-scoring path.
C2_CategoryAndConfidenceRange ==
  Classified =>
    /\ ret.outcome.kind = "return"
    /\ ret.outcome.value.category \in NotificationCategory
    /\ InUnitInterval(ret.outcome.value.confidence)

\* A learned content override returned with the confidence 0.9 of the
\* content ceiling.
C2_Witness ==
  /\ Classified
  /\ OverrideFor("Work")
  /\ ret.outcome.value.confidence = ContentCeiling
  /\ C2_CategoryAndConfidenceRange

\* C3: classify("", "", "") returns Personal with confidence exactly 0.5
\* and no matched keywords in every reachable state.
C3_EmptyInputIsPersonal ==
  (Classified /\ ret.args = Strings(<<"", "", "">>)) =>
    /\ ret.outcome.kind = "return"
    /\ ret.outcome.value.category = "Personal"
    /\ ret.outcome.value.confidence = DefaultConfidence
    /\ ret.outcome.value.matched_keywords = <<>>

\* The empty input classified after feedback with an empty app name has
\* taught Work content tokens above 0.7.
C3_Witness ==
  /\ Classified
  /\ ret.args = Strings(<<"", "", "">>)
  /\ ContentAbove("Work", Chars("urgent"))
  /\ Apps("Work") = EmptyDict
  /\ ret.outcome.value.category = "Personal"

\* A step is a learn_from_feedback call.
LearnStep == feedback_count' = feedback_count + 1

LearnedApp == NormalApp(ret'.args.app_name)

OldApps == DictGet(learned_patterns[ret'.args.actual_category], "apps",
                   EmptyDict)

NewApps == DictGet(learned_patterns'[ret'.args.actual_category], "apps",
                   EmptyDict)

\* C4: a learn_from_feedback call for an app already learned in the actual
\* category never lowers the app's confidence there, raises it strictly
\* while it is below 0.95, and never leaves it above 0.95.
C4_AppConfidenceMonotone ==
  [][(LearnStep /\ LearnedApp # <<>> /\ DictHas(OldApps, LearnedApp)) =>
       LET old == DictGet(OldApps, LearnedApp, FloatZero)
           new == DictGet(NewApps, LearnedApp, FloatZero)
       IN /\ DictHas(NewApps, LearnedApp)
          /\ FloatLeq(old, new)
          /\ FloatLess(old, AppCeiling) => FloatLess(old, new)
          /\ FloatLeq(new, AppCeiling)]_vars

\* Six identical feedbacks in a row: the app's confidence has reached the
\* 0.95 ceiling at the fifth and stayed there at the sixth.
C4_Witness ==
  /\ ret.op = "learn_from_feedback"
  /\ feedback_count = 6
  /\ DictGet(Apps("Personal"), Chars("testapp"), FloatZero) = AppCeiling
  /\ DictGet(Content("Personal"), Chars("test"), FloatZero)
       = Float(214748364, 429496768)
  /\ Content("Work") = EmptyDict

ZeroStats ==
  [learned_apps |-> 0, learned_content_patterns |-> 0,
   top_apps |-> <<>>, top_content_patterns |-> <<>>]

\* C5: get_category_stats called right after reset_learned_patterns
\* reports no learned app, no learned content pattern and empty top lists
\* for Work, Personal and Junk, also when the store's delete calls fail or
\* no store is configured.
C5_StatsAfterResetAreZero ==
  ret.op = "reset_learned_patterns" =>
    get_category_stats(learned_patterns)
      = Return([category \in NotificationCategory |-> ZeroStats])

\* A reset whose delete call failed, after feedback had been learned and
\* stored.
C5_Witness ==
  /\ ret.op = "reset_learned_patterns"
  /\ ret.warned
  /\ feedback_count > 0
  /\ \E category \in NotificationCategory :
       store[category] \notin {JAbsent, json_dumps(EmptyPatterns)}

HasBothMaps(patterns) ==
  /\ IsDict(patterns)
  /\ DictHas(patterns, "apps")
  /\ IsDict(DictGet(patterns, "apps", PyList))
  /\ DictHas(patterns, "content")
  /\ IsDict(DictGet(patterns, "content", PyList))

ValuesWithin(d, ceiling) ==
  \A i \in DOMAIN d.items :
    FloatLeq(FloatZero, d.items[i].v) /\ FloatLeq(d.items[i].v, ceiling)

\* The words of a feedback event that learn_from_feedback learns.
LearnedWords(input) ==
  LET words == FindWords(NormalContent(input[2], input[3]))
  IN {words[i] : i \in {j \in DOMAIN words :
                          j <= MaxLearnedWords
                          /\ Len(words[j]) > ShortWordLength}}

\* C7: every learned app confidence lies in [0, 0.95] and every learned
\* content confidence in [0, 0.9]; and the first write of a token, one
\* that the category does not hold yet, stores 0.5 plus one increment: 0.6
\* for an app and 0.55 for a content token.
C7_ConfidenceBounds ==
  \A category \in NotificationCategory :
    /\ ValuesWithin(Apps(category), AppCeiling)
    /\ ValuesWithin(Content(category), ContentCeiling)
    /\ \A input \in FeedbackInputs :
         /\ (NormalApp(input[1]) # <<>>
               /\ ~DictHas(Apps(category), NormalApp(input[1]))) =>
              DictGet(DictGet(LearnApp(learned_patterns[category],
                                       NormalApp(input[1])).patterns,
                              "apps", EmptyDict),
                      NormalApp(input[1]), FloatZero)
                = Float(161061273, 322122544)
         /\ \A word \in LearnedWords(input) :
              ~DictHas(Content(category), word) =>
                DictGet(DictGet(LearnWord(learned_patterns[category],
                                          word).patterns,
                                "content", EmptyDict),
                        word, FloatZero)
                  = Float(147639500, 429496736)

\* After one feedback the app holds 0.6 and the content token 0.55, and
\* the tokens of Work are still to be written for the first time.
C7_Witness ==
  /\ ret.op = "learn_from_feedback"
  /\ feedback_count = 1
  /\ DictGet(Apps("Personal"), Chars("testapp"), FloatZero)
       = Float(161061273, 322122544)
  /\ DictGet(Content("Personal"), Chars("test"), FloatZero)
       = Float(147639500, 429496736)
  /\ Content("Work") = EmptyDict

\* C8: learn_from_feedback never raises because of the store: when a store
\* write fails, or no store is configured, the call returns normally and
\* the in-memory learned patterns carry the update of the feedback.
C8_LearnSurvivesStoreFailure ==
  [][LearnStep =>
       /\ ret'.op = "learn_from_feedback"
       /\ ret'.outcome = None
       /\ learned_patterns'
            = learn_from_feedback(learned_patterns, ret'.args).patterns]_vars

\* A learn_from_feedback call whose store write failed: it returned, the
\* update is in memory and the store lacks it.
C8_Witness ==
  /\ ret.op = "learn_from_feedback"
  /\ ret.warned
  /\ ret.outcome = None
  /\ redis_client
  /\ learned_patterns # AllEmpty
  /\ \E category \in NotificationCategory :
       store[category] # json_dumps(learned_patterns[category])

\* A stored text this program could have written for a category: a JSON
\* object holding 'apps' and 'content' objects of numbers.
WellFormedDoc(doc) ==
  /\ doc.j = "object"
  /\ \A name \in {"apps", "content"} :
       \E i \in DOMAIN doc.members :
         /\ doc.members[i].name = name
         /\ doc.members[i].value.j = "object"
         /\ \A k \in DOMAIN doc.members[i].value.members :
              doc.members[i].value.members[k].value.j = "number"

\* C9: constructing the classifier never raises, a category whose stored
\* value is absent or corrupt (not parseable, or parseable but not a
\* mapping holding 'apps' and 'content' maps of numbers) has the empty
\* maps after construction, and no later classify, learn_from_feedback or
\* get_category_stats call fails.
C9_CorruptStoreLoadsEmpty ==
  /\ ret.outcome.kind # "raise"
  /\ ret.op = "__init__" =>
       \A category \in NotificationCategory :
         ~WellFormedDoc(store[category]) =>
           learned_patterns[category] = EmptyPatterns

\* C10: while a store is configured, no store call has failed and no key
\* has expired, a classifier constructed on the store holds learned
\* patterns equal to those in memory: all three categories, both tracks,
\* same confidences.
C10_RestartRoundTrip ==
  store_reliable =>
    _load_learned_patterns(store, TRUE, 0)
      = [patterns |-> learned_patterns, warned |-> FALSE]

\* A classifier restarted on the store after feedback for two categories:
\* it holds what the old instance held.
C10_Witness ==
  /\ ret.op = "__init__"
  /\ store_reliable
  /\ feedback_count > 1
  /\ DictHas(Apps("Personal"), Chars("testapp"))
  /\ DictHas(Content("Work"), Chars("urgent"))

\* A POST /feedback request was answered in this step.
FeedbackAnswered == ret'.op = "submit_feedback" /\ ret' # ret

\* C11: a POST /feedback request whose predicted_category or actual_category
\* is not exactly one of "Work", "Personal", "Junk" is answered with status
\* 400 (not 500), learn_from_feedback is not called, and the learned
\* patterns and the store are left as they were.
C11_InvalidCategoryRejected ==
  [][(/\ FeedbackAnswered
      /\ \/ ret'.args.predicted_category \notin {"Work", "Personal", "Junk"}
         \/ ret'.args.actual_category \notin {"Work", "Personal", "Junk"})
     => /\ ret'.outcome.status = 400
        /\ feedback_count' = feedback_count
        /\ learned_patterns' = learned_patterns
        /\ store' = store]_vars

\* A request naming the category "work" was rejected after patterns had been
\* learned and saved.
C11_Witness ==
  /\ ret.op = "submit_feedback"
  /\ ret.args.actual_category = "work"
  /\ ret.outcome.status = 400
  /\ learned_patterns # AllEmpty
  /\ \E category \in NotificationCategory : store[category] # JAbsent

\* classify was called in this step.
ClassifyStep == ret'.op = "classify" /\ ret' # ret

SameUpToCase(a, b) ==
  /\ Len(a) = Len(b)
  /\ \A i \in 1..Len(a) :
       \/ a[i] = b[i]
       \/ \E k \in DOMAIN UpperChars :
            {a[i], b[i]} = {UpperChars[k], LowerChars[k]}

\* C13: in every learned state reachable through feedback, two inputs that
\* differ only in the letter case of app_name, title and body are given the
\* same category and the same confidence by classify.
C13_CaseInsensitive ==
  \A x \in DirectInputs, y \in DirectInputs :
    (/\ PyNone \notin {x[2], x[3], y[2], y[3]}
     /\ \A field \in 1..3 : SameUpToCase(x[field], y[field]))
    => LET rx == classify(learned_patterns, x[1], x[2], x[3])
           ry == classify(learned_patterns, y[1], y[2], y[3])
       IN /\ rx.kind = "return"
          /\ ry.kind = "return"
          /\ rx.value.category = ry.value.category
          /\ rx.value.confidence = ry.value.confidence

\* C14: classify called with None for title and for body does not raise and
\* returns what classify returns for the same app name with an empty title
\* and an empty body.
C14_NoneIsEmpty ==
  (Classified /\ ret.args[2] = PyNone /\ ret.args[3] = PyNone)
  => /\ ret.outcome.kind = "return"
     /\ ret.outcome = classify(learned_patterns, ret.args[1], <<>>, <<>>)

\* Request r served from start to end, with nothing in between, on the
\* learned patterns, store and responses given.
Serve(state, r) ==
  LET request == Requests[r]
      Answer(response) == [state.responses EXCEPT ![r] = response]
  IN CASE request.path = "feedback" ->
            IF \/ request.body.predicted_category \notin NotificationCategory
               \/ request.body.actual_category \notin NotificationCategory
            THEN [state EXCEPT !.responses = Answer(Response(400, "Invalid category"))]
            ELSE LET feedback ==
                       UserFeedback(request.body.app_name,
                                    OrEmpty(request.body.title),
                                    OrEmpty(request.body.body),
                                    request.body.predicted_category,
                                    request.body.actual_category)
                     learned == learn_from_feedback(state.learned_patterns,
                                                    feedback)
                 IN [learned_patterns |-> learned.patterns,
                     store |-> _save_learned_patterns(state.store, TRUE, 0,
                                                      learned.patterns).store,
                     responses |->
                       Answer(Response(200, <<"success", feedback.app_name,
                                              feedback.predicted_category,
                                              feedback.actual_category>>))]
       [] request.path = "classify" ->
            [state EXCEPT !.responses =
               Answer(Response(200,
                 classify(state.learned_patterns, request.body.app_name,
                          OrEmpty(request.body.title),
                          OrEmpty(request.body.body)).value))]
       [] request.path = "stats" ->
            [state EXCEPT !.responses =
               Answer(Response(200,
                 StatsResponse(get_category_stats(state.learned_patterns).value,
                               TRUE)))]
       [] request.path = "reset" ->
            [learned_patterns |-> AllEmpty,
             store |-> DeleteKeys(state.store, TRUE, 0).store,
             responses |-> Answer(Response(200, "success"))]

\* The requests of `order` served one after the other.
RECURSIVE Serial(_, _)
Serial(state, order) ==
  IF order = <<>> THEN state
  ELSE Serial(Serve(state, Head(order)), Tail(order))

\* The handlers that have run a statement and have not responded yet.
InFlight ==
  {r \in DOMAIN loop.pc :
     loop.pc[r] > 1 /\ loop.pc[r] <= Len(Statements(Requests[r].path))}

\* C15: requests submitted concurrently to one service process never
\* interleave inside a handler: at most one handler is under way at any
\* time, and whenever none is, the learned patterns, the store and every
\* response sent are those of serving the requests one after the other in
\* the order in which their handlers started.
C15_HandlersSerialised ==
  /\ Cardinality(InFlight) <= 1
  /\ InFlight = {}
     => LET serial ==
              Serial([learned_patterns |-> AllEmpty,
                      store |-> [category \in NotificationCategory |-> JAbsent],
                      responses |-> [r \in DOMAIN Requests |-> None]],
                     loop.order)
        IN /\ learned_patterns = serial.learned_patterns
           /\ store = serial.store
           /\ loop.responses = serial.responses

\* All five requests were answered and both feedback submissions count: the
\* app's confidence is 0.7 and the word's is 0.9.
C15_Witness ==
  /\ loop # Idle
  /\ \A r \in DOMAIN Requests : loop.responses[r] # None
  /\ DictGet(Apps("Junk"), Chars("testapp"), FloatZero)
       = Float(187904819, 107374176)
  /\ DictGet(Content("Junk"), Chars("urgent"), FloatZero) = ContentCeiling

\* Normalised app names and contents on which the learned lookup is
\* compared with the claim, besides those of the classify calls made.
LookupInputs ==
  {<<NormalApp(input[1]), NormalContent(input[2], input[3])>> :
     input \in ClassifyInputs}
    \cup {<<Chars("testapp"), Chars("test message")>>,
          <<Chars("testapp"), Chars("an urgent test")>>,
          <<Chars("other"), Chars("latest: urgent")>>}

\* The learned entries that qualify for the app name and the content: the
\* position of the category in the scan order, 0 for an app entry and 1
\* for a content entry, and the position of the entry in its map.
LearnedEntries(ci, kind) ==
  IF kind = 0 THEN Apps(Categories[ci]).items
  ELSE Content(Categories[ci]).items

LearnedHits(app_name, content) ==
  LET candidates ==
        UNION {{<<ci, kind, i>> : i \in DOMAIN LearnedEntries(ci, kind)} :
                 ci \in DOMAIN Categories, kind \in {0, 1}}
  IN {h \in candidates :
        LET item == LearnedEntries(h[1], h[2])[h[3]]
        IN /\ IF h[2] = 0 THEN item.k = app_name
              ELSE Contains(item.k, content)
           /\ ~FloatLeq(item.v, Float(187904819, 107374176))}

\* h comes no later than g in the scan.
ScannedFirst(h, g) ==
  \/ h[1] < g[1]
  \/ h[1] = g[1] /\ h[2] < g[2]
  \/ h[1] = g[1] /\ h[2] = g[2] /\ h[3] <= g[3]

\* found is what the claim says the learned lookup gives for the app name
\* and the content: nothing when no entry qualifies, else the first
\* qualifying entry's category, confidence and key.
FirstHitIs(app_name, content, found) ==
  LET hits == LearnedHits(app_name, content)
  IN IF hits = {} THEN found = None
     ELSE LET first == CHOOSE h \in hits : \A g \in hits : ScannedFirst(h, g)
              item == LearnedEntries(first[1], first[2])[first[3]]
          IN /\ found.kind = "return"
             /\ found.value.category = Categories[first[1]]
             /\ found.value.confidence = item.v
             /\ found.value.matched_keywords = <<item.k>>

\* C16: the learned lookup scans the categories in the order Work, Personal,
\* Junk and, inside a category, the app entry before the content entries; it
\* returns the first entry whose confidence is strictly above 0.7 (an app
\* key equal to the normalised app name, or a content key occurring in the
\* normalised content) with that entry's category, confidence and key as the
\* only matched keyword, whatever later entries hold; an entry at 0.7 or
\* below gives no override.
C16_FirstQualifyingEntry ==
  /\ \A input \in LookupInputs :
       FirstHitIs(input[1], input[2],
                  _check_learned_patterns(learned_patterns, input[1], input[2]))
  /\ Classified
     => FirstHitIs(NormalApp(ret.args[1]),
                   NormalContent(ret.args[2], ret.args[3]),
                   IF /\ ret.outcome.kind = "return"
                      /\ ~Contains(LearnedPrefix, ret.outcome.value.reasoning)
                   THEN None ELSE ret.outcome)

\* classify('TestApp', ...) took the keyword path while the app's learned
\* confidence for Personal was exactly 0.7 and nothing else qualified.
C16_Witness ==
  /\ Classified
  /\ ClassifiedApp = Chars("testapp")
  /\ DictGet(Apps("Personal"), Chars("testapp"), FloatZero)
       = Float(187904819, 107374176)
  /\ ret.outcome.kind = "return"
  /\ ~Contains(LearnedPrefix, ret.outcome.value.reasoning)

\* A Work content entry was returned although Personal held the app above
\* 0.7 and a content entry that occurs in the content as well.
LaterEntriesPassedOver ==
  \E input \in LookupInputs :
    /\ Cardinality(LearnedHits(input[1], input[2])) >= 3
    /\ _check_learned_patterns(learned_patterns, input[1],
                               input[2]).value.category = "Work"

\* The keyword scores (twice their value) of the three categories for the
\* classify call made, in the order Work, Personal, Junk.
ClassifiedScores ==
  [i \in DOMAIN Categories |->
     CategoryScore(Categories[i], ClassifiedApp, ClassifiedContent).score]

BestScore ==
  CHOOSE s \in Range(ClassifiedScores) : \A o \in Range(ClassifiedScores) : o <= s

LowestScore ==
  CHOOSE s \in Range(ClassifiedScores) : \A o \in Range(ClassifiedScores) : s <= o

SecondScore ==
  ClassifiedScores[1] + ClassifiedScores[2] + ClassifiedScores[3]
    - BestScore - LowestScore

\* classify returned a result of the keyword tables with a non-zero score.
KeywordResult ==
  /\ Classified
  /\ ret.outcome.kind = "return"
  /\ ~Contains(LearnedPrefix, ret.outcome.value.reasoning)
  /\ BestScore > 0

Magnitude(n) == IF n < 0 THEN 0 - n ELSE n

\* The float f is within half a unit in the last place of p / r, for
\* 1/2 < p / r < 1: with f = n * 2^-57, |n * r - p * 2^57| <= 8 * r, computed
\* limb by limb.
NearestTo(f, p, r) ==
  LET e1 == (f.hi \div 2^14) * r - p * 2^14
      e2 == e1 * 2^14 + (f.hi % 2^14) * r
      e3 == e2 * 2^14 + (f.lo \div 2^15) * r
      d == e3 * 2^15 + (f.lo % 2^15) * r
  IN /\ Magnitude(e1) <= r
     /\ Magnitude(e2) <= r
     /\ Magnitude(e3) <= r
     /\ Magnitude(d) <= 8 * r

\* C17: on the keyword path with a non-zero best score the confidence is
\* (best - second) / max(best, 1.0) clamped to [0.5, 0.95]: it lies in
\* [0.5, 0.95], is 0.5 when the two highest scores are equal, and is 0.95
\* when only one category has a non-zero score.
C17_KeywordConfidence ==
  KeywordResult
  => LET confidence == ret.outcome.value.confidence
         p == BestScore - SecondScore
         r == IF BestScore > 2 THEN BestScore ELSE 2
     IN /\ IsFloat(confidence)
        /\ FloatLeq(Float(134217728, 0), confidence)
        /\ FloatLeq(confidence, Float(255013683, 107374176))
        /\ BestScore = SecondScore => confidence = Float(134217728, 0)
        /\ SecondScore = 0 => confidence = Float(255013683, 107374176)
        /\ IF 2 * p <= r THEN confidence = Float(134217728, 0)
           ELSE IF 20 * p >= 19 * r
           THEN confidence = Float(255013683, 107374176)
           ELSE NearestTo(confidence, p, r)

\* A confidence strictly inside the interval that is no binary fraction:
\* the scores are 3 to 1, the quotient is 2/3.
C17_Witness ==
  /\ KeywordResult
  /\ BestScore = 3 * SecondScore
  /\ SecondScore > 0
  /\ ret.outcome.value.confidence \notin
       {Float(134217728, 0), Float(255013683, 107374176)}

\* C18: on the keyword path the returned category has a score at least as
\* high as each other category; among categories tied at the highest
\* non-zero score the first in the order Work, Personal, Junk is returned;
\* when all three scores are 0 the result is Personal with confidence 0.5
\* and no matched keywords.
C18_HighestScoreWins ==
  (/\ Classified
   /\ ret.outcome.kind = "return"
   /\ ~Contains(LearnedPrefix, ret.outcome.value.reasoning))
  => IF \A i \in DOMAIN Categories : ClassifiedScores[i] = 0
     THEN /\ ret.outcome.value.category = "Personal"
          /\ ret.outcome.value.confidence = Float(134217728, 0)
          /\ ret.outcome.value.matched_keywords = <<>>
     ELSE \E w \in DOMAIN Categories :
            /\ ret.outcome.value.category = <<"Work", "Personal", "Junk">>[w]
            /\ \A i \in DOMAIN Categories :
                 ClassifiedScores[i] <= ClassifiedScores[w]
            /\ \A i \in 1..(w - 1) : ClassifiedScores[i] < ClassifiedScores[w]

\* Personal and Junk tied at the highest score, above Work, and Personal
\* was returned.
C18_Witness ==
  /\ KeywordResult
  /\ ClassifiedScores[2] = ClassifiedScores[3]
  /\ ClassifiedScores[1] < ClassifiedScores[2]
  /\ ret.outcome.value.category = "Personal"

\* The entries of a category's tables in the order apps, content keywords,
\* patterns, domains, each with its kind.
TableEntries(category) ==
  LET table == KeywordsOf(category)
      Of(kind, entries) ==
        [i \in DOMAIN entries |-> [kind |-> kind, entry |-> entries[i]]]
  IN Of("app", table.apps) \o Of("keyword", table.content)
       \o Of("pattern", table.patterns) \o Of("domain", table.domains)

\* The entry matches the classify call made: an app keyword occurs in the
\* app name, a content keyword or a domain occurs in the content, a pattern
\* is found in the content.
EntryMatches(e) ==
  CASE e.kind = "app" -> Contains(e.entry, ClassifiedApp)
    [] e.kind = "pattern" -> ReSearch(e.entry.re, ClassifiedContent)
    [] OTHER -> Contains(e.entry, ClassifiedContent)

\* kind:text
Tagged(e) ==
  Chars(e.kind) \o <<":">>
    \o (IF e.kind = "pattern" THEN e.entry.src ELSE e.entry)

\* Every matching entry of the category's tables, tagged, in table order.
AllMatches(category) ==
  LET hits == SelectSeq(TableEntries(category), EntryMatches)
  IN [i \in DOMAIN hits |-> Tagged(hits[i])]

\* How many matching entries of the kind the category's tables hold.
MatchCount(category, kind) ==
  Cardinality({i \in DOMAIN TableEntries(category) :
                 /\ TableEntries(category)[i].kind = kind
                 /\ EntryMatches(TableEntries(category)[i])})

\* C19: a category's score is 3.0 for every app keyword occurring in the app
\* name, 1.0 for every content keyword occurring in the content, 2.0 for
\* every pattern found in it and 1.5 for every domain occurring in it, all
\* entries counted; its match list holds every match, tagged app:,
\* keyword:, pattern: or domain:, in that order; and classify returns the
\* whole match list of the winning category.  (Scores are kept doubled.)
C19_ScoreAndMatches ==
  Classified
  => /\ \A category \in {"Work", "Personal", "Junk"} :
          LET scored ==
                CategoryScore(category, ClassifiedApp, ClassifiedContent)
          IN /\ scored.score =
                  6 * MatchCount(category, "app")
                    + 2 * MatchCount(category, "keyword")
                    + 4 * MatchCount(category, "pattern")
                    + 3 * MatchCount(category, "domain")
             /\ scored.matches = AllMatches(category)
     /\ KeywordResult
        => ret.outcome.value.matched_keywords
             = AllMatches(ret.outcome.value.category)

\* A Work result with two app matches, three keyword matches and a domain
\* match, all six returned.
C19_Witness ==
  /\ KeywordResult
  /\ ret.outcome.value.category = "Work"
  /\ MatchCount("Work", "app") = 2
  /\ MatchCount("Work", "keyword") = 3
  /\ MatchCount("Work", "domain") = 1
  /\ Len(ret.outcome.value.matched_keywords) = 6

\* The content keywords among the matches returned, without their tag.
ReturnedKeywords ==
  LET IsKeyword(m) == StartsWith(m, Chars("keyword:"))
      Bare(m) == SubSeq(m, 9, Len(m))
  IN Collect(ret.outcome.value.matched_keywords, IsKeyword, Bare)

\* C20: on the keyword path, when the winning category's matches are domain
\* matches only, the reasoning is "Classified as <Category> based on general
\* patterns"; in every other result it is "Classified as <Category>: "
\* followed by at least one reason phrase, and it names at most 3 content
\* keywords.
C20_ReasoningText ==
  KeywordResult
  => LET result == ret.outcome.value
         head == Chars("Classified as ") \o Chars(result.category)
     IN IF \A i \in DOMAIN result.matched_keywords :
             StartsWith(result.matched_keywords[i], Chars("domain:"))
        THEN result.reasoning = head \o Chars(" based on general patterns")
        ELSE /\ StartsWith(result.reasoning, head \o Chars(": "))
             /\ Len(result.reasoning) > Len(head) + 2
             /\ Len(ReturnedKeywords) > 3
                => /\ Contains(Join(Chars(", "), SubSeq(ReturnedKeywords, 1, 3)),
                               result.reasoning)
                   /\ ~Contains(Join(Chars(", "), SubSeq(ReturnedKeywords, 1, 4)),
                                result.reasoning)

\* The feedback of the learn_from_feedback call made in this step, as the
\* call normalises it.
LearnedContent == NormalContent(ret'.args.title, ret'.args.body)

OldContent == DictGet(learned_patterns[ret'.args.actual_category], "content",
                      EmptyDict)

NewContent == DictGet(learned_patterns'[ret'.args.actual_category], "content",
                      EmptyDict)

Keys(d) == {d.items[i].k : i \in DOMAIN d.items}

\* The first tokens of the content: at most five runs of word characters
\* that are at least 3 long.
FirstTokens(content) ==
  LET words == FindWords(content)
  IN SubSeq(words, 1, IF Len(words) < 5 THEN Len(words) ELSE 5)

\* min(0.90, old + 0.05), n times over.
RECURSIVE Raised(_, _)
Raised(old, n) ==
  IF n = 0 THEN old
  ELSE FloatMin(Float(241591910, 214748368),
                FloatAdd(Raised(old, n - 1), Float(13421772, 429496730)))

\* C21: one learn_from_feedback call for category C sets
\* apps[app] = min(0.95, old + 0.1), old being 0.5 for an absent key, only
\* when the normalised app name is not empty; for the content it takes at
\* most the first 5 tokens of length >= 3 and, for each of them longer than
\* 3 in turn, sets content[token] = min(0.90, old + 0.05).  So one call adds
\* at most 5 content keys, every learned content key has at least 4
\* characters, and an empty app name leaves every apps map as it was.
C21_OneFeedbackStep ==
  [][LearnStep =>
       \A app \in {LearnedApp}, tokens \in {FirstTokens(LearnedContent)},
          old_apps \in {OldApps}, new_apps \in {NewApps},
          old_content \in {OldContent}, new_content \in {NewContent} :
         \A long \in {{i \in DOMAIN tokens : Len(tokens[i]) > 3}} :
           /\ app = <<>> =>
                \A category \in NotificationCategory :
                  DictGet(learned_patterns'[category], "apps", EmptyDict)
                    = DictGet(learned_patterns[category], "apps", EmptyDict)
           /\ app # <<>> =>
                /\ Keys(new_apps) = Keys(old_apps) \cup {app}
                /\ DictGet(new_apps, app, FloatZero)
                     = FloatMin(Float(255013683, 107374176),
                         FloatAdd(DictGet(old_apps, app, Float(134217728, 0)),
                                  Float(26843545, 322122548)))
                /\ \A a \in Keys(old_apps) \ {app} :
                     DictGet(new_apps, a, FloatZero)
                       = DictGet(old_apps, a, FloatZero)
           /\ Keys(new_content)
                = Keys(old_content) \cup {tokens[i] : i \in long}
           /\ \A w \in Keys(new_content) :
                DictGet(new_content, w, FloatZero)
                  = Raised(DictGet(old_content, w, Float(134217728, 0)),
                           Cardinality({i \in long : tokens[i] = w}))
           /\ Cardinality(Keys(new_content) \ Keys(old_content)) <= 5
           /\ \A w \in Keys(new_content) : Len(w) >= 4]_vars

\* A call with an empty app name whose content has seven tokens, three of
\* them of three characters among the first five: it has learned the two
\* long ones of the first five and nothing else.
C21_Witness ==
  /\ ret.op = "learn_from_feedback"
  /\ ret.args.app_name = <<>>
  /\ feedback_count = 1
  /\ Len(FindWords(NormalContent(ret.args.title, ret.args.body))) = 7
  /\ Keys(Content("Work"))
       = Keys(DictGet(LearnAll(AllEmpty, EarlierFeedback, 1)["Work"],
                      "content", EmptyDict))
           \cup {Chars("meeting"), Chars("about")}
  /\ Apps("Work") = DictGet(LearnAll(AllEmpty, EarlierFeedback, 1)["Work"],
                            "apps", EmptyDict)

\* Other cases of C21 that are reached: a call that adds five content keys
\* and leaves the sixth token out, and a call that raises a token twice.
C21_FiveKeysAdded ==
  /\ ret.op = "learn_from_feedback"
  /\ feedback_count = 1
  /\ Keys(Content("Junk"))
       = {Chars("kilo"), Chars("lima"), Chars("mike"), Chars("november"),
          Chars("oscar"), Chars("papa"), Chars("quebec")}
  /\ DictGet(Content("Work"), Chars("sale"), FloatZero) = FloatZero

C21_TokenRaisedTwice ==
  /\ ret.op = "learn_from_feedback"
  /\ feedback_count = 1
  /\ DictGet(Content("Work"), Chars("sale"), FloatZero)
       = Raised(Float(134217728, 0), 2)
  /\ ~DictHas(Content("Work"), Chars("now"))

\* A get_category_stats call was made in this step.
StatsStep == ret'.op = "get_category_stats" /\ ret' # ret

\* top holds the n items of highest confidence (all of them when there are
\* fewer), highest first, items of equal confidence in the order of items,
\* also where the list is cut.
IsTop(top, items, n) ==
  LET Pos(e) == CHOOSE j \in DOMAIN items : items[j].k = e.k
      Before(e, j) ==
        \/ FloatLess(items[j].v, e.v)
        \/ (items[j].v = e.v /\ Pos(e) < j)
  IN /\ Len(top) = IF Len(items) < n THEN Len(items) ELSE n
     /\ \A i \in DOMAIN top : \E j \in DOMAIN items : items[j] = top[i]
     /\ \A i \in DOMAIN top : \A i2 \in DOMAIN top :
          i < i2 => Before(top[i], Pos(top[i2]))
     /\ \A j \in DOMAIN items :
          (\A i \in DOMAIN top : top[i] # items[j]) =>
            \A i \in DOMAIN top : Before(top[i], j)

\* C22: get_category_stats returns an entry for each of Work, Personal and
\* Junk in which learned_apps and learned_content_patterns are the numbers
\* of keys of the category's apps and content maps, top_apps holds the
\* min(5, n) app entries of highest confidence and top_content_patterns the
\* min(10, n) content entries of highest confidence, both in non-increasing
\* confidence order with equal confidences in insertion order; the call
\* changes neither the learned patterns nor the external store.
C22_StatsAsClaimed ==
  [][StatsStep =>
       /\ learned_patterns' = learned_patterns
       /\ store' = store
       /\ ret'.outcome.kind = "return"
       /\ DOMAIN ret'.outcome.value = {"Work", "Personal", "Junk"}
       /\ \A category \in {"Work", "Personal", "Junk"} :
            \A stats \in {ret'.outcome.value[category]},
               apps \in {Apps(category).items},
               content \in {Content(category).items} :
              /\ stats.learned_apps = Cardinality(Keys(Apps(category)))
              /\ stats.learned_content_patterns
                   = Cardinality(Keys(Content(category)))
              /\ IsTop(stats.top_apps, apps, 5)
              /\ IsTop(stats.top_content_patterns, content, 10)]_vars

\* Statistics of six learned Work apps and twelve learned Work tokens: the
\* top lists are cut to five and ten, and the app left out has the same
\* confidence as four of those kept, which were learned before it.
C22_Witness ==
  /\ ret.op = "get_category_stats"
  /\ ret.outcome.kind = "return"
  /\ ret.outcome.value["Work"].learned_apps = 6
  /\ ret.outcome.value["Work"].learned_content_patterns = 12
  /\ Len(ret.outcome.value["Work"].top_apps) = 5
  /\ Len(ret.outcome.value["Work"].top_content_patterns) = 10
  /\ ret.outcome.value["Work"].top_apps[1].k = Chars("jira")
  /\ ret.outcome.value["Work"].top_apps[5]
       = [k |-> Chars("mail app"), v |-> Float(161061273, 322122544)]
  /\ DictGet(Apps("Work"), Chars("outlook"), FloatZero)
       = Float(161061273, 322122544)

\* C23: after reset_learned_patterns has returned, the learned_patterns
\* entry of every category contains no elements (its length is 0), and the
\* store's delete was called for the learned-pattern keys, which a store
\* that answers no longer holds.
C23_ResetLeavesNoElements ==
  ret.op = "reset_learned_patterns" =>
    /\ \A category \in NotificationCategory :
         PyLen(learned_patterns[category]) = 0
    /\ (redis_client /\ ~ret.warned) =>
         \A category \in NotificationCategory : store[category] = JAbsent

\* Every entry of the map old is an entry of the map new, with a confidence
\* that is not lower.
Kept(old, new) ==
  \A i \in DOMAIN old.items :
    /\ DictHas(new, old.items[i].k)
    /\ FloatLeq(old.items[i].v, DictGet(new, old.items[i].k, FloatZero))

\* C24: a learn_from_feedback call with actual category C changes only C's
\* apps and content maps: the maps of the two other categories are
\* unchanged, and no key is removed and no confidence lowered by feedback;
\* only reset_learned_patterns removes entries.
C24_FeedbackOnlyAdds ==
  [][/\ LearnStep =>
          \A category \in NotificationCategory \ {ret'.args.actual_category} :
            learned_patterns'[category] = learned_patterns[category]
     /\ ret'.op # "reset_learned_patterns" =>
          \A category \in NotificationCategory :
            \A old \in {learned_patterns[category]},
               new \in {learned_patterns'[category]} :
              /\ Kept(DictGet(old, "apps", EmptyDict),
                      DictGet(new, "apps", EmptyDict))
              /\ Kept(DictGet(old, "content", EmptyDict),
                      DictGet(new, "content", EmptyDict))]_vars

\* Feedback has moved an app that Junk had learned above 0.7 to Work: the
\* Junk entry is as it was and the Work entry has been raised.
C24_Witness ==
  /\ ret.op = "learn_from_feedback"
  /\ ret.args.actual_category = "Work"
  /\ NormalApp(ret.args.app_name) = Chars("mail app")
  /\ DictGet(Apps("Junk"), Chars("mail app"), FloatZero)
       = Float(214748364, 429496720)
  /\ DictGet(Apps("Work"), Chars("mail app"), FloatZero) = LearnedThreshold
  /\ Keys(Content("Junk")) = {Chars("kilo"), Chars("lima")}

\* The feedback events that differ from the event only in the predicted
\* category and the timestamp.
Variants(feedback) ==
  {UserFeedback(feedback.app_name, feedback.title, feedback.body, predicted,
                feedback.actual_category) @@ [timestamp |-> timestamp] :
     predicted \in NotificationCategory, timestamp \in 0..1}

\* C25: the effect of learn_from_feedback depends only on app_name, title,
\* body and actual_category: feedback events that differ only in
\* predicted_category or timestamp, applied to equal learned patterns,
\* give equal learned patterns and equal store writes; a confirmation
\* raises the confidences exactly as a correction does.
C25_PredictedCategoryIgnored ==
  \A input \in LearnInputs :
    \A feedback \in {UserFeedback(input[1], input[2], input[3], input[4],
                                  input[5])} :
      \A learned \in {learn_from_feedback(learned_patterns, feedback)} :
        \A variant \in Variants(feedback) :
          \A other \in {learn_from_feedback(learned_patterns, variant)} :
            /\ other = learned
            /\ _save_learned_patterns(store, redis_client, 0, other.patterns)
                 = _save_learned_patterns(store, redis_client, 0,
                                          learned.patterns)

\* A confirmation (predicted = actual = Work) and a correction (predicted
\* Junk) for the same app have raised its Work entry twice.
C25_Witness ==
  /\ ret.op = "learn_from_feedback"
  /\ ret.args.predicted_category = ret.args.actual_category
  /\ feedback_count = 2
  /\ DictGet(Apps("Work"), Chars("outlook"), FloatZero) = LearnedThreshold
  /\ \E input \in LearnInputs :
       /\ input[1] = ret.args.app_name
       /\ input[5] = ret.args.actual_category
       /\ input[4] # ret.args.predicted_category

\* C26: starting from an empty learned-pattern store, a single
\* learn_from_feedback call never creates a learned entry with a confidence
\* above 0.7, so a classify call made after exactly one feedback is never a
\* learned override, also when the feedback content repeats a word among
\* its first 5 tokens.
C26_OneFeedbackNeverOverrides ==
  feedback_count = 1 =>
    /\ \A category \in NotificationCategory :
         /\ ValuesWithin(Apps(category), LearnedThreshold)
         /\ ValuesWithin(Content(category), LearnedThreshold)
    /\ Classified =>
         ~Contains(LearnedPrefix, ret.outcome.value.reasoning)

\* C27: loading at construction is independent per category: a category
\* whose stored value is present and a valid object is loaded into memory
\* also when the parsing of another category's stored value fails, or when
\* the read of another category's key fails.
C27_LoadIsPerCategory ==
  /\ (ret.op = "__init__" /\ redis_client /\ store_reliable) =>
       \A category \in NotificationCategory :
         store[category].j = "object" =>
           learned_patterns[category] = json_loads(store[category])
  /\ \A fail \in 1..Len(Categories) :
       \A category \in NotificationCategory \ {Categories[fail]} :
         store[category].j = "object" =>
           _load_learned_patterns(store, TRUE, fail).patterns[category]
             = json_loads(store[category])

\* C28: reset is durable: once reset_learned_patterns has returned, a
\* classifier restarted on the same external store holds no pattern learned
\* before the reset, also when delete calls failed during the reset and no
\* feedback was given afterwards.
C28_ResetIsDurable ==
  [][(ret.op = "reset_learned_patterns" /\ ret'.op = "__init__")
       => learned_patterns' = AllEmpty]_vars

\* C29: with two classifier instances sharing one external store no accepted
\* feedback is lost from the store: after both instances completed their
\* learn_from_feedback calls with successful saves, what a restarted
\* instance loads from the store holds every entry either instance holds
\* in memory, with a confidence at least as high.
C29_NoFeedbackLost ==
  peer # None =>
    \A seen \in {_load_learned_patterns(store, TRUE, 0).patterns} :
      \A category \in NotificationCategory, kind \in {"apps", "content"} :
        /\ Kept(DictGet(learned_patterns[category], kind, EmptyDict),
                DictGet(seen[category], kind, EmptyDict))
        /\ Kept(DictGet(peer[category], kind, EmptyDict),
                DictGet(seen[category], kind, EmptyDict))

\* C30: a learned Work app entry always wins: in every reachable state in
\* which the Work apps map holds the normalized app name with a confidence
\* above 0.7, classify of that app name returns Work with that stored
\* confidence for every title and body, whatever the Personal and Junk
\* categories hold; and from every reachable state three
\* learn_from_feedback calls with that app name and the actual category
\* Work lead to such a state.
C30_LearnedWorkAppWins ==
  /\ (Classified /\ AppOverride(Apps("Work"), ClassifiedApp)) =>
       /\ ret.outcome.kind = "return"
       /\ ret.outcome.value.category = "Work"
       /\ ret.outcome.value.confidence
            = DictGet(Apps("Work"), ClassifiedApp, FloatZero)
  /\ \A app_name \in {Chars("Mail App"), Chars(" MAIL APP "),
                      Chars("Outlook"), Chars("Jira")} :
       /\ AppOverride(Apps("Work"), NormalApp(app_name)) =>
            \A content \in {Strings(<<"50% OFF Sale!", "Buy 1 get 1">>),
                            Strings(<<"Mom", "kilo lima birthday">>),
                            Strings(<<"", "">>)} :
              \A result \in {classify(learned_patterns, app_name,
                                      content[1], content[2])} :
                /\ result.kind = "return"
                /\ result.value.category = "Work"
                /\ result.value.confidence
                     = DictGet(Apps("Work"), NormalApp(app_name), FloatZero)
       /\ \A feedback \in {UserFeedback(app_name, Chars("kilo lima"),
                                        Chars(""), "Junk", "Work")} :
            AppOverride(
              DictGet(LearnAll(learned_patterns,
                               <<feedback, feedback, feedback>>, 1)["Work"],
                      "apps", EmptyDict),
              NormalApp(app_name))

\* Reached: Junk and Work both hold "mail app" above 0.7 and a notification
\* of that app with Junk keywords in its title is classified as Work.
C30_Witness ==
  /\ Classified
  /\ ClassifiedApp = Chars("mail app")
  /\ ret.args[2] = Chars("50% OFF Sale!")
  /\ AppOverride(Apps("Work"), ClassifiedApp)
  /\ AppOverride(Apps("Junk"), ClassifiedApp)
  /\ ret.outcome.kind = "return"
  /\ ret.outcome.value.category = "Work"
  /\ feedback_count = 2

====
